---- MODULE Spec2Model ----
(***************************************************************************)
(* A model of the C64 Ultimate integration of the c64.vscode extension:    *)
(*   - C64UFileOpenManager (src/src/c64u/file-open-manager.ts): the cache  *)
(*     of opened remote files and the upload-on-save watcher;              *)
(*   - C64UFileSystemProvider.handleDrop (src/unnamed/part_001): the       *)
(*     drag-and-drop move with conflict rename and copy+delete fallback;   *)
(*   - C64UTreeViewActions (src/src/c64u/treeview-actions.ts): the copy,   *)
(*     upload and create-disk-image actions.                               *)
(* File names and paths are strings, handled character by character the    *)
(* way the JavaScript string and node:path (posix) functions handle them.  *)
(***************************************************************************)
EXTENDS Integers, Sequences, FiniteSets, TLC

(***************************************************************************)
(* Bounds of the model.                                                    *)
(***************************************************************************)
\* the user's actions in the editor: opens, edits, saves, dispose
MaxEvents == 4

\* the entries of one dragged batch
MaxItems == 2

(***************************************************************************)
(* JavaScript strings and node:path.                                       *)
(***************************************************************************)
MaxOf(S) == CHOOSE m \in S : \A n \in S : n <= m

MinOf(S) == CHOOSE m \in S : \A n \in S : m <= n

\* s[i], i counted from 0 as in JavaScript
CharAt(s, i) == SubSeq(s, i + 1, i + 1)

\* String.prototype.lastIndexOf for a one-character needle: -1 when absent
LastIndexOf(s, c) ==
    LET I == {i \in 0..(Len(s) - 1) : CharAt(s, i) = c}
    IN  IF I = {} THEN -1 ELSE MaxOf(I)

\* String.prototype.substring(a, b) for 0 <= a <= b
Substring(s, a, b) == SubSeq(s, a + 1, b)

\* String.prototype.substring(a)
SubstringFrom(s, a) == SubSeq(s, a + 1, Len(s))

StartsWith(s, pre) == Len(s) >= Len(pre) /\ SubSeq(s, 1, Len(pre)) = pre

EndsWith(s, suf) ==
    Len(s) >= Len(suf) /\ SubSeq(s, Len(s) - Len(suf) + 1, Len(s)) = suf

\* String.prototype.includes
Includes(s, sub) ==
    \E i \in 1..(Len(s) - Len(sub) + 1) : SubSeq(s, i, i + Len(sub) - 1) = sub

UpperLetters == "ABCDEFGHIJKLMNOPQRSTUVWXYZ"

LowerLetters == "abcdefghijklmnopqrstuvwxyz"

LowerChar(c) ==
    IF \E i \in 1..26 : SubSeq(UpperLetters, i, i) = c
    THEN LET i == CHOOSE j \in 1..26 : SubSeq(UpperLetters, j, j) = c
         IN  SubSeq(LowerLetters, i, i)
    ELSE c

RECURSIVE ToLowerCase(_)
\* String.prototype.toLowerCase on ASCII
ToLowerCase(s) ==
    IF Len(s) = 0 THEN ""
    ELSE LowerChar(SubSeq(s, 1, 1)) \o ToLowerCase(SubSeq(s, 2, Len(s)))

UpperChar(c) ==
    IF \E i \in 1..26 : SubSeq(LowerLetters, i, i) = c
    THEN LET i == CHOOSE j \in 1..26 : SubSeq(LowerLetters, j, j) = c
         IN  SubSeq(UpperLetters, i, i)
    ELSE c

RECURSIVE ToUpperCase(_)
\* String.prototype.toUpperCase on ASCII
ToUpperCase(s) ==
    IF Len(s) = 0 THEN ""
    ELSE UpperChar(SubSeq(s, 1, 1)) \o ToUpperCase(SubSeq(s, 2, Len(s)))

RECURSIVE StripTrailingSlashes(_)
StripTrailingSlashes(p) ==
    IF Len(p) > 1 /\ EndsWith(p, "/")
    THEN StripTrailingSlashes(SubSeq(p, 1, Len(p) - 1))
    ELSE p

\* path.basename(p)
PathBasename(p) ==
    LET q == StripTrailingSlashes(p)
    IN  IF q = "/" THEN "" ELSE SubstringFrom(q, LastIndexOf(q, "/") + 1)

\* path.extname(p): from the last '.' of the basename, '' when there is none
\* or when it is the basename's first character
PathExtname(p) ==
    LET b == PathBasename(p)
        i == LastIndexOf(b, ".")
    IN  IF i <= 0 \/ b = ".." THEN "" ELSE SubstringFrom(b, i)

\* path.basename(p, ext)
PathBasenameExt(p, ext) ==
    LET b == PathBasename(p)
    IN  IF ext # "" /\ b # ext /\ EndsWith(b, ext)
        THEN SubSeq(b, 1, Len(b) - Len(ext))
        ELSE b

\* path.dirname(p)
PathDirname(p) ==
    LET q == StripTrailingSlashes(p)
        i == LastIndexOf(q, "/")
    IN  IF i = -1 THEN "."
        ELSE IF i = 0 THEN "/"
        ELSE StripTrailingSlashes(Substring(q, 0, i))

\* path.join(a, b) for a relative b without '.' or '..' segments
PathJoin(a, b) == IF b = "" THEN a ELSE a \o "/" \o b

Digits == "0123456789"

RECURSIVE NumberToString(_)
\* the decimal text of a non-negative integer, as a template literal gives it
NumberToString(n) ==
    IF n < 10 THEN SubSeq(Digits, n + 1, n + 1)
    ELSE NumberToString(n \div 10) \o SubSeq(Digits, (n % 10) + 1, (n % 10) + 1)

(***************************************************************************)
(* State.                                                                  *)
(***************************************************************************)
VARIABLES
    \* C64UFileOpenManager
    fileMap,        \* localPath -> CachedFile, or NoEntry
    uploading,      \* the upload guard: the set of local paths being uploaded
    watching,       \* the save watcher is registered (in this.disposables)
    disposed,       \* dispose() has run (the commands are unregistered with it)
    \* the editor host and the two file systems
    docs,           \* localPath -> "none" | "clean" | "dirty": the text buffers
    localFile,      \* localPath -> content of the cache file, or Absent
    remoteFile,     \* remotePath -> content of the file on the device
    opens,          \* openFile invocations suspended at an await
    uploads,        \* 'fs upload' calls in flight
    \* what the manager did, as its collaborators see it
    nEvents,        \* the user's actions so far; a save that is action k writes
                    \* content k
    lastSave,       \* localPath -> the content of the latest save event the
                    \* watcher received for it while tracked, or Absent
    step            \* the step just taken, as the collaborators see it: what was
                    \* delivered ("save", "upload:ok", "upload:fail",
                    \* "download:ok", "download:fail", "download:throw",
                    \* "answer:<choice>" of the overwrite prompt) and what
                    \* the manager did ("call:upload", "call:download",
                    \* "call:upload:throw", "show", "status", "error", "warning")

syncVars == <<fileMap, uploading, watching, disposed, docs, localFile, remoteFile,
              opens, uploads, nEvents, lastSave, step>>

VARIABLES
    \* the tree view: C64UFileSystemProvider.handleDrop and C64UTreeViewActions
    tpc,            \* the await the running handler is suspended at: "idle" (none
                    \* runs), "ls", "mv", "cp", "rm", "loop" (handleDrop), "copy",
                    \* "upload", "create" (the actions)
    drop,           \* handleDrop's target and targetDir, the entry its loop is
                    \* at (item) and the entries it has yet to take (items)
    locals,         \* the running handler's locals: the names and the
                    \* destination path it works with
    calls,          \* the remote calls issued by the handler that runs or ran
                    \* last, in order (handleDrop: for its current entry)
    returns,        \* the results of those of them that have returned
    reports,        \* the messages shown by it, in order (handleDrop: for its
                    \* current entry)
    refreshes       \* tree refreshes fired by it

treeVars == <<tpc, drop, locals, calls, returns, reports, refreshes>>

VARIABLES
    \* KickassemblerService
    kpc,            \* where assemble is: "idle" (no build runs), "exec" (the
                    \* assembler runs), "parse" (parseDiagnostics runs)
    build,          \* the build that runs or ran last: filePath, the output
                    \* and the error the exec callback was given, and others:
                    \* another file held diagnostics when the build began
    parse,          \* parseDiagnostics' locals: the lines yet to be looked at,
                    \* lastError, diagnostics
    diagnosticCollection,   \* file -> the diagnostics set for it
    notice          \* the message shown by the assemble that runs or ran last

buildVars == <<kpc, build, parse, diagnosticCollection, notice>>

VARIABLES
    \* the tree view's data provider: C64UFileSystemProvider.getChildren
    vpc,            \* the await getChildren is suspended at: "idle" (none), "ls"
    view,           \* the provider, the node getChildren was called on, and
                    \* the listing it was given
    children,       \* the children the last getChildren returned
    vnotice         \* the error message getChildren showed last, or ""

viewVars == <<vpc, view, children, vnotice>>

vars == <<syncVars, treeVars, buildVars, viewVars>>

(***************************************************************************)
(* C64UFileOpenManager.                                                    *)
(***************************************************************************)
TEXT_EXTENSIONS == {".asm", ".bas", ".seq", ".txt", ".cfg", ".inc", ".sym", ".dbg"}

BINARY_EXTENSIONS == {".prg", ".crt", ".bin", ".tap", ".t64", ".rel", ".ko"}

\* path.join(extensionStoragePath, 'c64u-cache')
CacheDir == "/store/c64u-cache"

\* The tree items openFile is called on: (item.resourcePath, item.label), the
\* label being the entry's name.  Two text files, a binary one, an unsupported one.
OpenItems ==
    { [resourcePath |-> "/d/a.asm", label |-> "a.asm"],
      [resourcePath |-> "/d/N.TXT", label |-> "N.TXT"],
      [resourcePath |-> "/d/g.prg", label |-> "g.prg"],
      [resourcePath |-> "/d/s.sid", label |-> "s.sid"] }

RemotePaths == {it.resourcePath : it \in OpenItems}

\* openFile's localPath: the remote path, leading slash stripped, under the cache
LocalPathOf(remotePath) ==
    LET relativePath == IF StartsWith(remotePath, "/")
                        THEN SubstringFrom(remotePath, 1)
                        ELSE remotePath
    IN  PathJoin(CacheDir, relativePath)

NoEntry == [localPath |-> "", remotePath |-> "", isText |-> FALSE]

\* contents: the device's original content, the content written by save k, no file
Original == "v0"

Content(k) == "v" \o NumberToString(k)

Absent == "absent"

\* a classification that takes the extension as it is written
IsTextName_AsWritten(label) == PathExtname(label) \in TEXT_EXTENSIONS

IsTextName(label) == ToLowerCase(PathExtname(label)) \in TEXT_EXTENSIONS

IsBinaryName(label) == ToLowerCase(PathExtname(label)) \in BINARY_EXTENSIONS

isOpenableFile(filename) == IsTextName(filename) \/ IsBinaryName(filename)

\* the cache files openFile can create: those of the openable items
LocalPaths == {LocalPathOf(it.resourcePath) : it \in {i \in OpenItems : isOpenableFile(i.label)}}

InFlight(p) == {u \in uploads : u.localPath = p}

\* a name for a new openFile invocation: the least number no suspended one bears
FreeId == MinOf({i \in 1..(Cardinality(opens) + 1) : \A o \in opens : o.id # i})

\* ---- openFile ----

\* an openFile that asks as well while the file is being uploaded
HasUnsavedChanges_OrUploading(localPath) ==
    docs[localPath] = "dirty" \/ localPath \in uploading

\* existingDoc && existingDoc.isDirty
HasUnsavedChanges(localPath) == docs[localPath] = "dirty"

\* openFile up to its first await: the classification, the dirty check, then the
\* prompt or the download call
OpenFileStart(item) ==
    LET remotePath == item.resourcePath
        label      == item.label
        isText     == IsTextName(label)
        isBinary   == IsBinaryName(label)
        localPath  == LocalPathOf(remotePath)
        inv(phase) == [id |-> FreeId, remotePath |-> remotePath, label |-> label,
                       localPath |-> localPath, isText |-> isText, phase |-> phase]
    IN  /\ ~disposed
        /\ nEvents < MaxEvents
        /\ nEvents' = nEvents + 1
        /\ IF ~isText /\ ~isBinary
           THEN /\ step' = {}
                /\ UNCHANGED opens
           ELSE IF HasUnsavedChanges(localPath)
           THEN /\ opens' = opens \cup {inv("prompt")}
                /\ step' = {}
           ELSE /\ opens' = opens \cup {inv("download")}
                /\ step' = {"call:download"}
        /\ UNCHANGED <<fileMap, uploading, watching, disposed, docs, localFile,
                       remoteFile, uploads, lastSave>>

\* the answer to "has unsaved local changes": 'Download Anyway', 'Cancel', or
\* the prompt dismissed (undefined)
PromptChoices == {"Download Anyway", "Cancel", "dismissed"}

\* an openFile that takes every answer for the confirmation
Confirmed_Always(choice) == TRUE

\* choice === 'Download Anyway'
Confirmed(choice) == choice = "Download Anyway"

\* the prompt is answered: the buffer is shown again, or the download is called
OpenFilePrompt(o, choice) ==
    /\ o \in opens
    /\ o.phase = "prompt"
    /\ IF ~Confirmed(choice)
       THEN /\ opens' = opens \ {o}
            /\ step' = {"answer:" \o choice, "show"}
       ELSE /\ opens' = (opens \ {o}) \cup {[o EXCEPT !.phase = "download"]}
            /\ step' = {"answer:" \o choice, "call:download"}
    /\ UNCHANGED <<fileMap, uploading, watching, disposed, docs, localFile,
                   remoteFile, uploads, nEvents, lastSave>>

\* a manager that registers the file whatever the download gave
MapAfterDownload_Always(o, outcome) ==
    [fileMap EXCEPT ![o.localPath] =
        [localPath |-> o.localPath, remotePath |-> o.remotePath,
         isText |-> o.isText]]

\* "Track the mapping": reached only when the download reported success
MapAfterDownload(o, outcome) ==
    IF outcome = "ok"
    THEN [fileMap EXCEPT ![o.localPath] =
             [localPath |-> o.localPath, remotePath |-> o.remotePath,
              isText |-> o.isText]]
    ELSE fileMap

\* "Open in the appropriate editor": a text editor, or the hex editor when that
\* extension is installed
PresentedAfterDownload(o, outcome, hexEditor) ==
    IF outcome = "ok"
    THEN IF o.isText \/ hexEditor THEN {"show"} ELSE {"warning"}
    ELSE IF outcome = "fail" THEN {"error"}
    ELSE {}

DownloadOutcomes == {"ok", "fail", "throw"}

\* the 'fs download' call returns (or throws) and openFile runs to its end
OpenFileDownloaded(o, outcome, hexEditor) ==
    /\ o \in opens
    /\ o.phase = "download"
    /\ opens' = opens \ {o}
    /\ fileMap' = MapAfterDownload(o, outcome)
    /\ step' = {"download:" \o outcome} \cup PresentedAfterDownload(o, outcome, hexEditor)
    /\ localFile' = IF outcome = "ok"
                    THEN [localFile EXCEPT ![o.localPath] = remoteFile[o.remotePath]]
                    ELSE localFile
    /\ docs' = IF outcome = "ok" /\ o.isText /\ docs[o.localPath] = "none"
               THEN [docs EXCEPT ![o.localPath] = "clean"]
               ELSE docs
    /\ UNCHANGED <<uploading, watching, disposed, remoteFile, uploads, nEvents,
                   lastSave>>

\* ---- setupSaveWatcher: the onDidSaveTextDocument handler ----

\* a watcher that uploads every registered file, binary ones too
Tracked_AnyEntry(localPath) == fileMap[localPath] # NoEntry

\* a watcher without the guard's check
GuardHeld_Never(localPath) == FALSE

\* a finally block that empties the guard
GuardCleared_All(guard, localPath) == {}

\* a watcher without the finally block
GuardCleared_Kept(guard, localPath) == guard

\* the lookup and its early return: an entry exists and is of the text class
Tracked(localPath) == fileMap[localPath] # NoEntry /\ fileMap[localPath].isText

\* "Prevent concurrent uploads of the same file"
GuardHeld(localPath) == localPath \in uploading

\* the finally block
GuardCleared(guard, localPath) == guard \ {localPath}

\* executeC64U either spawns the CLI (the call is then in flight) or throws
\* before it has spawned anything
UploadCallOutcomes == {"spawned", "throw"}

\* the handler for a save of localPath, up to its await (or to its end)
OnDidSave(localPath, callOutcome) ==
    IF ~Tracked(localPath)
    THEN /\ step' = {"save"}
         /\ UNCHANGED <<uploading, uploads>>
    ELSE IF GuardHeld(localPath)
    THEN /\ step' = {"save"}
         /\ UNCHANGED <<uploading, uploads>>
    ELSE IF callOutcome = "spawned"
            THEN /\ step' = {"save", "call:upload"}
                 /\ uploading' = uploading \cup {localPath}
                 /\ uploads' = uploads \cup
                        {[id |-> Cardinality(InFlight(localPath)) + 1, localPath |-> localPath,
                          remotePath |-> fileMap[localPath].remotePath,
                          phase |-> "spawned", data |-> Absent]}
            ELSE /\ step' = {"save", "call:upload:throw", "error"}
                 /\ uploading' = GuardCleared(uploading \cup {localPath}, localPath)
                 /\ UNCHANGED uploads

\* the user saves the buffer of localPath: the editor writes the file, then
\* fires the save event if the watcher is still registered
SaveDocument(localPath, callOutcome) ==
    /\ docs[localPath] # "none"
    /\ nEvents < MaxEvents
    /\ nEvents' = nEvents + 1
    /\ localFile' = [localFile EXCEPT ![localPath] = Content(nEvents + 1)]
    /\ docs' = [docs EXCEPT ![localPath] = "clean"]
    /\ IF watching
       THEN /\ OnDidSave(localPath, callOutcome)
            /\ lastSave' = IF Tracked(localPath)
                           THEN [lastSave EXCEPT ![localPath] = Content(nEvents + 1)]
                           ELSE lastSave
       ELSE /\ step' = {}
            /\ UNCHANGED <<uploading, uploads, lastSave>>
    /\ UNCHANGED <<fileMap, watching, disposed, remoteFile, opens>>

\* the CLI process of an upload reads the local file it is to send
UploadReads(u) ==
    /\ u \in uploads
    /\ u.phase = "spawned"
    /\ uploads' = (uploads \ {u}) \cup
                  {[u EXCEPT !.phase = "read", !.data = localFile[u.localPath]]}
    /\ step' = {}
    /\ UNCHANGED <<fileMap, uploading, watching, disposed, docs, localFile,
                   remoteFile, opens, nEvents, lastSave>>

\* the 'fs upload' call returns and the handler runs to its end; a successful
\* call has stored what the CLI read
UploadReturns(u, success) ==
    /\ u \in uploads
    /\ success => u.phase = "read" /\ u.data # Absent
    /\ uploads' = uploads \ {u}
    /\ remoteFile' = IF success
                     THEN [remoteFile EXCEPT ![u.remotePath] = u.data]
                     ELSE remoteFile
    /\ uploading' = GuardCleared(uploading, u.localPath)
    /\ step' = IF success THEN {"upload:ok", "status"} ELSE {"upload:fail", "error"}
    /\ UNCHANGED <<fileMap, watching, disposed, docs, localFile, opens, nEvents,
                   lastSave>>

\* ---- dispose ----

\* a dispose that leaves the mapping as it is
MapCleared_Kept(map) == map

\* this.fileMap.clear()
MapCleared(map) == [p \in DOMAIN map |-> NoEntry]

Dispose ==
    /\ ~disposed
    /\ nEvents < MaxEvents
    /\ nEvents' = nEvents + 1
    /\ disposed' = TRUE
    /\ watching' = FALSE
    /\ fileMap' = MapCleared(fileMap)
    /\ step' = {}
    /\ UNCHANGED <<uploading, docs, localFile, remoteFile, opens, uploads, lastSave>>

\* ---- the user, in the editor ----
EditDocument(localPath) ==
    /\ docs[localPath] = "clean"
    /\ nEvents < MaxEvents
    /\ nEvents' = nEvents + 1
    /\ docs' = [docs EXCEPT ![localPath] = "dirty"]
    /\ step' = {}
    /\ UNCHANGED <<fileMap, uploading, watching, disposed, localFile, remoteFile,
                   opens, uploads, lastSave>>

\* the user opens a file of the cache directory without the tree (File > Open)
OpenDocument(localPath) ==
    /\ docs[localPath] = "none"
    /\ nEvents < MaxEvents
    /\ nEvents' = nEvents + 1
    /\ docs' = [docs EXCEPT ![localPath] = "clean"]
    /\ step' = {}
    /\ UNCHANGED <<fileMap, uploading, watching, disposed, localFile, remoteFile,
                   opens, uploads, lastSave>>

SyncInit ==
    /\ fileMap = [p \in LocalPaths |-> NoEntry]
    /\ uploading = {}
    /\ watching = TRUE
    /\ disposed = FALSE
    /\ docs = [p \in LocalPaths |-> "none"]
    /\ localFile = [p \in LocalPaths |-> Absent]
    /\ remoteFile = [r \in RemotePaths |-> Original]
    /\ opens = {}
    /\ uploads = {}
    /\ nEvents = 0
    /\ lastSave = [p \in LocalPaths |-> Absent]
    /\ step = {}

\* the steps of the editor host, the user and the CLI, but for the outcome of
\* the upload calls
SyncHostNext ==
    \/ \E item \in OpenItems : OpenFileStart(item)
    \/ \E o \in opens, choice \in PromptChoices : OpenFilePrompt(o, choice)
    \/ \E o \in opens, outcome \in DownloadOutcomes, hexEditor \in BOOLEAN :
           OpenFileDownloaded(o, outcome, hexEditor)
    \/ \E u \in uploads : UploadReads(u)
    \/ Dispose
    \/ \E p \in LocalPaths : EditDocument(p)
    \/ \E p \in LocalPaths : OpenDocument(p)

SyncNext ==
    \/ SyncHostNext
    \/ \E p \in LocalPaths, callOutcome \in UploadCallOutcomes :
           SaveDocument(p, callOutcome)
    \/ \E u \in uploads, success \in BOOLEAN : UploadReturns(u, success)

\* the same, every upload call that is issued succeeding
SyncNextUploadsSucceed ==
    \/ SyncHostNext
    \/ \E p \in LocalPaths : SaveDocument(p, "spawned")
    \/ \E u \in uploads : UploadReturns(u, TRUE)

(***************************************************************************)
(* The tree view: drag-and-drop move.                                      *)
(***************************************************************************)
\* C64UTreeItem: itemType and resourcePath (the label is the path's last part)
Item(itemType, resourcePath) == [itemType |-> itemType, resourcePath |-> resourcePath]

\* "no node": the drop target or the action's item is undefined
NoItem == Item("undefined", "")

\* what a drop can land on: nothing, a directory, a file in a directory, a file
\* in the root, the two sections
DropTargets ==
    { NoItem,
      Item("directory", "/A"),
      Item("program", "/A/X.PRG"),
      Item("program", "/X.PRG"),
      Item("filesystem-root", "/"),
      Item("machine-root", "__machine__") }

\* what can be dragged: two files of another directory (one without an
\* extension), a file of the directory /A itself, and a '..' entry
DragItems ==
    { Item("program", "/B/FOO.PRG"),
      Item("file", "/B/LOADER"),
      Item("program", "/A/FOO.PRG"),
      Item("parent", "/") }

\* the names 'fs ls' may report for the target directory
ListedNames == {"FOO.PRG", "FOO_1.PRG", "FOO_2.PRG", "LOADER"}

\* the error texts of a failed call: the device's cross-device refusal, a
\* refusal for another reason, and one for another reason whose text holds
\* the digits of a size
ErrorTexts ==
    { "450 Requested file action not taken",
      "550 Permission denied",
      "552 Exceeded quota of 450 blocks" }

ThrownText == "spawn c64u ENOENT"

\* the drop being handled: its target, the entry the loop is at, the entries
\* still to come, and how many error messages the entries before have shown
NoDrop ==
    [target |-> NoItem, targetDir |-> "", item |-> NoItem, items |-> <<>>,
     errors |-> 0]

\* the listing 'fs ls --json' gave: null (failure, unparsable output)
NullListing == {"<null>"}

NoLocals ==
    [fileName |-> "", targetFiles |-> NullListing, finalFileName |-> "",
     finalPath |-> ""]

\* a call's result {success, error}; thrown: the call threw instead
Result(success, error, thrown) ==
    [success |-> success, error |-> error, thrown |-> thrown]

Ok == Result(TRUE, "", FALSE)

Thrown == Result(FALSE, ThrownText, TRUE)

Results == {Ok, Thrown} \cup {Result(FALSE, e, FALSE) : e \in ErrorTexts}

\* a remote call: the CLI command, its source and destination paths, its options
Call(cmd, src, dst, opts) == [cmd |-> cmd, src |-> src, dst |-> dst, opts |-> opts]

Report(level, text) == [level |-> level, text |-> text]

\* "Determine target directory"
TargetDirOf(target) ==
    IF target = NoItem THEN "/"
    ELSE IF target.itemType = "directory" THEN target.resourcePath
    ELSE LET lastSlash == LastIndexOf(target.resourcePath, "/")
         IN  IF lastSlash > 0
             THEN Substring(target.resourcePath, 0, lastSlash)
             ELSE "/"

\* a handleDrop without its root check
IsRootTarget_Never(targetDir) == FALSE

\* "Check if target is root directory"
IsRootTarget(targetDir) == targetDir = "/"

\* "Skip special items"
IsSpecialItem(item) ==
    item.itemType \in {"parent", "message", "error", "machine-root",
                       "machine-action", "filesystem-root"}

\* item.resourcePath.substring(0, item.resourcePath.lastIndexOf('/')) || '/'
SourceDirOf(item) ==
    LET i == LastIndexOf(item.resourcePath, "/")
        d == IF i < 0
             THEN Substring(item.resourcePath, 0, Len(item.resourcePath) - 1)
             ELSE Substring(item.resourcePath, 0, i)
    IN  IF d = "" THEN "/" ELSE d

\* targetDir === '/' ? `/${name}` : `${targetDir}/${name}`
PathIn(targetDir, name) ==
    IF targetDir = "/" THEN "/" \o name ELSE targetDir \o "/" \o name

\* `${baseName}_${counter}${fileExt}`
Candidate(baseName, fileExt, counter) ==
    baseName \o "_" \o NumberToString(counter) \o fileExt

\* a renaming that tries the first candidate only
FirstFree_Once(baseName, fileExt, counter, existingNames) ==
    Candidate(baseName, fileExt, counter)

RECURSIVE FirstFree(_, _, _, _)
\* the do-while loop: the first candidate, from counter on, not in existingNames
FirstFree(baseName, fileExt, counter, existingNames) ==
    IF Candidate(baseName, fileExt, counter) \in existingNames
    THEN FirstFree(baseName, fileExt, counter + 1, existingNames)
    ELSE Candidate(baseName, fileExt, counter)

\* a naming that takes a listing that failed for one that holds the name
FinalFileName_NullCollides(fileName, targetFiles) ==
    LET fileExt  == PathExtname(fileName)
        baseName == PathBasenameExt(fileName, fileExt)
    IN  IF targetFiles = NullListing THEN FirstFree(baseName, fileExt, 1, {})
        ELSE IF fileName \in targetFiles
        THEN FirstFree(baseName, fileExt, 1, targetFiles)
        ELSE fileName

\* "Find unique filename if conflict exists": targetFiles is null or the set
\* of the listed names
FinalFileName(fileName, targetFiles) ==
    LET fileExt  == PathExtname(fileName)
        baseName == PathBasenameExt(fileName, fileExt)
    IN  IF targetFiles # NullListing /\ fileName \in targetFiles
        THEN FirstFree(baseName, fileExt, 1, targetFiles)
        ELSE fileName

\* the two messages of a move that succeeded
MovedReport(e, targetDir) ==
    IF e.finalFileName # e.fileName
    THEN Report("info", "Moved " \o e.fileName \o " to " \o targetDir \o "/"
                        \o e.finalFileName \o " (renamed to avoid conflict)")
    ELSE Report("info", "Moved " \o e.fileName \o " to " \o targetDir)

RECURSIVE NextActive(_, _, _)
\* the loop's "continue"s: the first of the entries from position i on that
\* is neither special nor already in the target directory (Len + 1: none)
NextActive(items, i, targetDir) ==
    IF i > Len(items) THEN i
    ELSE IF IsSpecialItem(items[i]) \/ SourceDirOf(items[i]) = targetDir
    THEN NextActive(items, i + 1, targetDir)
    ELSE i

\* a refresh that fires nothing
Refresh_Dropped(fired) == fired

\* this.refresh(): the cache is cleared and the tree's change event is fired
Refresh(fired) == fired + 1

\* the error messages among those shown
ErrorsShown(shown) ==
    Cardinality({i \in 1..Len(shown) : shown[i].level = "error"})

\* the for-of loop takes its next entry: past the skipped ones up to the
\* 'fs ls' call of the next entry to move, or past the last entry to the
\* refresh that ends handleDrop
LoopStep ==
    /\ tpc = "loop"
    /\ LET j == NextActive(drop.items, 1, drop.targetDir)
       IN  /\ IF j <= Len(drop.items)
              THEN LET fileName == PathBasename(drop.items[j].resourcePath)
                   IN  /\ drop' = [drop EXCEPT
                               !.item = drop.items[j],
                               !.items = SubSeq(drop.items, j + 1, Len(drop.items)),
                               !.errors = drop.errors + ErrorsShown(reports)]
                       /\ locals' = [fileName |-> fileName,
                                     targetFiles |-> NullListing,
                                     finalFileName |-> fileName,
                                     finalPath |-> PathIn(drop.targetDir, fileName)]
                       /\ calls' = <<Call("ls", drop.targetDir, "", <<>>)>>
                       /\ returns' = <<>>
                       /\ reports' = <<>>
                       /\ tpc' = "ls"
                       /\ UNCHANGED refreshes
              ELSE /\ drop' = [drop EXCEPT
                               !.items = <<>>,
                               !.errors = drop.errors + ErrorsShown(reports)]
                   /\ refreshes' = Refresh(refreshes)
                   /\ tpc' = "idle"
                   /\ UNCHANGED <<locals, calls, returns, reports>>
    /\ UNCHANGED <<syncVars, buildVars, viewVars>>

\* a loop that a message ends
EntryDone_Ends(report) ==
    /\ reports' = Append(reports, report)
    /\ tpc' = "idle"

\* the entry is done with this message; the loop goes on
EntryDone(report) ==
    /\ reports' = Append(reports, report)
    /\ tpc' = "loop"

\* the catch block of the loop body
Caught(errorMsg) ==
    EntryDone(Report("error", "Failed to move file: " \o errorMsg))

RootRejection ==
    "Cannot move or copy files to root directory. C64 Ultimate file system does not support files in root. Please select a subdirectory."

\* handleDrop up to its loop
HandleDrop(target, draggedItems) ==
    LET targetDir == TargetDirOf(target)
    IN  /\ tpc = "idle"
        /\ drop' = [target |-> target, targetDir |-> targetDir,
                    item |-> NoItem, items |-> draggedItems, errors |-> 0]
        /\ locals' = NoLocals
        /\ calls' = <<>>
        /\ returns' = <<>>
        /\ refreshes' = 0
        /\ IF IsRootTarget(targetDir)
           THEN /\ reports' = <<Report("error", RootRejection)>>
                /\ tpc' = "idle"
           ELSE /\ reports' = <<>>
                /\ tpc' = "loop"
        /\ UNCHANGED <<syncVars, buildVars, viewVars>>

\* the answers of 'fs ls --json': null, or the names
Listings == {NullListing} \cup SUBSET ListedNames

\* 'fs ls' returns (or the call throws): the name is settled, 'fs mv' is issued
LsReturns(targetFiles, throws) ==
    /\ tpc = "ls"
    /\ IF throws
       THEN /\ returns' = Append(returns, Thrown)
            /\ Caught(ThrownText)
            /\ UNCHANGED <<locals, calls>>
       ELSE LET finalFileName == FinalFileName(locals.fileName, targetFiles)
                finalPath == PathIn(drop.targetDir, finalFileName)
            IN  /\ returns' = Append(returns,
                        Result(targetFiles # NullListing, "", FALSE))
                /\ locals' = [locals EXCEPT !.targetFiles = targetFiles,
                                            !.finalFileName = finalFileName,
                                            !.finalPath = finalPath]
                /\ calls' = Append(calls,
                        Call("mv", drop.item.resourcePath, finalPath, <<>>))
                /\ tpc' = "mv"
                /\ UNCHANGED reports
    /\ UNCHANGED <<drop, refreshes, syncVars, buildVars, viewVars>>

\* "If move failed with 450 error, try copy + delete (cross-partition move)"
NeedsFallback(moveResult) ==
    ~moveResult.success /\ Includes(moveResult.error, "450")

\* a fallback that leaves moveResult as the failed mv gave it
AfterFallback_Kept(moveResult) == moveResult

\* moveResult = { success: true, output: '' } once copy and delete succeeded
AfterFallback(moveResult) == Ok

\* the tail of the loop body: the outcome of the move is reported
ReportMove(moveResult) ==
    IF ~moveResult.success
    THEN EntryDone(Report("error", "Failed to move " \o locals.fileName
                                   \o ": " \o moveResult.error))
    ELSE EntryDone(MovedReport(locals, drop.targetDir))

\* a move that is tried a second time after a failure
MvReturns_Again(moveResult) ==
    /\ tpc = "mv"
    /\ returns' = Append(returns, moveResult)
    /\ IF ~moveResult.success /\ Len(calls) = 2
       THEN /\ calls' = Append(calls, calls[2])
            /\ UNCHANGED <<tpc, reports>>
       ELSE ReportMove(moveResult) /\ UNCHANGED calls
    /\ UNCHANGED <<drop, locals, refreshes, syncVars, buildVars, viewVars>>

\* 'fs mv' returns
MvReturns(moveResult) ==
    /\ tpc = "mv"
    /\ returns' = Append(returns, moveResult)
    /\ IF moveResult.thrown
       THEN Caught(moveResult.error) /\ UNCHANGED calls
       ELSE IF NeedsFallback(moveResult)
       THEN /\ calls' = Append(calls,
                    Call("cp", drop.item.resourcePath,
                         locals.finalPath, <<>>))
            /\ tpc' = "cp"
            /\ UNCHANGED reports
       ELSE ReportMove(moveResult) /\ UNCHANGED calls
    /\ UNCHANGED <<drop, locals, refreshes, syncVars, buildVars, viewVars>>

\* a fallback that takes every copy for a success
CopyFailed_Never(copyResult) == FALSE

\* if (!copyResult.success)
CopyFailed(copyResult) == ~copyResult.success

\* 'fs cp' returns
CpReturns(copyResult) ==
    /\ tpc = "cp"
    /\ returns' = Append(returns, copyResult)
    /\ IF copyResult.thrown
       THEN Caught(copyResult.error) /\ UNCHANGED calls
       ELSE IF CopyFailed(copyResult)
       THEN /\ EntryDone(Report("error", "Failed to copy " \o locals.fileName
                                         \o ": " \o copyResult.error))
            /\ UNCHANGED calls
       ELSE /\ calls' = Append(calls,
                    Call("rm", drop.item.resourcePath, "", <<>>))
            /\ tpc' = "rm"
            /\ UNCHANGED reports
    /\ UNCHANGED <<drop, locals, refreshes, syncVars, buildVars, viewVars>>

\* a fallback that reports a failed delete as a failed move
CopiedReport_AsMoveFailure(fileName, error) ==
    Report("error", "Failed to move " \o fileName \o ": " \o error)

\* `Copied ${fileName} but failed to delete original: ${deleteResult.error}`
CopiedReport(fileName, error) ==
    Report("error", "Copied " \o fileName
                    \o " but failed to delete original: " \o error)

\* 'fs rm' returns
RmReturns(deleteResult) ==
    /\ tpc = "rm"
    /\ returns' = Append(returns, deleteResult)
    /\ IF deleteResult.thrown
       THEN Caught(deleteResult.error)
       ELSE IF ~deleteResult.success
       THEN EntryDone(CopiedReport(locals.fileName, deleteResult.error))
       ELSE ReportMove(AfterFallback(returns[2]))
    /\ UNCHANGED <<drop, locals, calls, refreshes, syncVars, buildVars, viewVars>>

\* the batches that can be dropped
Batches == UNION {[1..n -> DragItems] : n \in 1..MaxItems}

DropNext ==
    \/ \E target \in DropTargets, draggedItems \in Batches :
          HandleDrop(target, draggedItems)
    \/ LoopStep
    \/ \E targetFiles \in Listings, throws \in BOOLEAN : LsReturns(targetFiles, throws)
    \/ \E moveResult \in Results : MvReturns(moveResult)
    \/ \E copyResult \in Results : CpReturns(copyResult)
    \/ \E deleteResult \in Results : RmReturns(deleteResult)

(***************************************************************************)
(* The tree view: C64UTreeViewActions.                                     *)
(***************************************************************************)
\* the nodes an action can be invoked on: a file in a directory, a file in
\* the root, a directory, the File System section; NoItem: the title bar
FileItems == {Item("program", "/A/X.PRG"), Item("program", "/X.PRG")}

ParentItems == {NoItem, Item("directory", "/A"), Item("filesystem-root", "/")}

\* what an input box or a dialog gives: "" when it is dismissed; for the
\* copy, the suggested name or the name of the file itself
NewNames == {"", "X.PRG.copy", "X.PRG"}

LocalUploads == {"", "/home/u/GAME.PRG"}

DiskNames == {"", "disk"}

DiskLabels == {"", "DISK"}

TrackInputs == {"", "35"}

\* the quick pick's entries (tracks "" where the entry has none); NoPick when
\* it is dismissed
ImageTypes ==
    { [value |-> "d64", tracks |-> "35"], [value |-> "d64", tracks |-> "40"],
      [value |-> "d81", tracks |-> ""], [value |-> "dnp", tracks |-> ""] }

NoPick == [value |-> "", tracks |-> ""]

\* parentItem?.resourcePath || '/'
ResourcePathOrRoot(item) ==
    IF item = NoItem \/ item.resourcePath = "" THEN "/" ELSE item.resourcePath

\* an action starts: its messages, calls and refreshes are those of this run
ActionBegins ==
    /\ tpc = "idle"
    /\ drop' = NoDrop
    /\ refreshes' = 0
    /\ UNCHANGED <<syncVars, buildVars, viewVars>>

\* the action returns before any call
ActionReturnsEarly(shown) ==
    /\ tpc' = "idle"
    /\ locals' = NoLocals
    /\ calls' = <<>>
    /\ returns' = <<>>
    /\ reports' = shown

\* the action issues its one call
ActionCalls(pc, call, fileName) ==
    /\ tpc' = pc
    /\ locals' = [fileName |-> fileName, targetFiles |-> NullListing,
                  finalFileName |-> fileName, finalPath |-> call.dst]
    /\ calls' = <<call>>
    /\ returns' = <<>>
    /\ reports' = <<>>

CopyRootRejection ==
    "Cannot copy files to root directory. C64 Ultimate file system does not support files in root."

UploadRootRejection ==
    "Cannot upload files to root directory. C64 Ultimate file system does not support files in root. Please select a subdirectory."

\* copyFile up to its call
CopyFile(item, newName) ==
    /\ ActionBegins
    /\ LET parentPath == PathDirname(item.resourcePath)
       IN  IF newName = "" THEN ActionReturnsEarly(<<>>)
           ELSE IF parentPath = "/"
           THEN ActionReturnsEarly(<<Report("error", CopyRootRejection)>>)
           ELSE ActionCalls("copy",
                    Call("cp", item.resourcePath, parentPath \o "/" \o newName, <<>>),
                    newName)

\* uploadFile up to its call
UploadFile(targetDir, fsPath) ==
    /\ ActionBegins
    /\ LET targetPath == ResourcePathOrRoot(targetDir)
           fileName == PathBasename(fsPath)
       IN  IF fsPath = "" THEN ActionReturnsEarly(<<>>)
           ELSE IF targetPath = "/"
           THEN ActionReturnsEarly(<<Report("error", UploadRootRejection)>>)
           ELSE ActionCalls("upload",
                    Call("upload", fsPath, PathIn(targetPath, fileName), <<>>),
                    fileName)

\* the options of 'files create-<type>'
CreateOpts(imageType, diskLabel, tracks) ==
    <<"--name", diskLabel>>
    \o (IF imageType.tracks = "40" THEN <<"--tracks", "40">>
        ELSE IF imageType.value = "dnp" THEN <<"--tracks", tracks>>
        ELSE <<>>)

\* createDiskImage up to its call
CreateDiskImage(parentItem, imageType, fileName, diskLabel, tracks) ==
    /\ ActionBegins
    /\ LET parentPath == ResourcePathOrRoot(parentItem)
           imageName == fileName \o "." \o imageType.value
       IN  IF \/ imageType = NoPick \/ fileName = "" \/ diskLabel = ""
              \/ (imageType.value = "dnp" /\ imageType.tracks # "40" /\ tracks = "")
           THEN ActionReturnsEarly(<<>>)
           ELSE ActionCalls("create",
                    Call("create-" \o imageType.value, "",
                         PathIn(parentPath, imageName),
                         CreateOpts(imageType, diskLabel, tracks)),
                    imageName)

\* what each action says when its call succeeded, and when it did not
Succeeded(pc) ==
    CASE pc = "copy"   -> "Copied to: " \o locals.fileName
      [] pc = "upload" -> "Uploaded: " \o locals.fileName
      [] pc = "create" -> "Created " \o ToUpperCase(SubstringFrom(calls[1].cmd, 7)) \o " image: "
                          \o locals.fileName

Failed(pc, error) ==
    CASE pc = "copy"   -> "Failed to copy: Error: " \o error
      [] pc = "upload" -> "Failed to upload: Error: " \o error
      [] pc = "create" -> "Failed to create disk image: Error: " \o error

\* the action's call returns: the message, and the refresh after a success
ActionReturns(result) ==
    /\ tpc \in {"copy", "upload", "create"}
    /\ tpc' = "idle"
    /\ returns' = <<result>>
    /\ IF result.success
       THEN /\ reports' = <<Report("info", Succeeded(tpc))>>
            /\ refreshes' = Refresh(refreshes)
       ELSE /\ reports' = <<Report("error", Failed(tpc, result.error))>>
            /\ UNCHANGED refreshes
    /\ UNCHANGED <<drop, locals, calls, syncVars, buildVars, viewVars>>

ActionsNext ==
    \/ \E item \in FileItems, newName \in NewNames : CopyFile(item, newName)
    \/ \E targetDir \in ParentItems, fsPath \in LocalUploads :
          UploadFile(targetDir, fsPath)
    \/ \E parentItem \in ParentItems, imageType \in ImageTypes \cup {NoPick},
          fileName \in DiskNames, diskLabel \in DiskLabels, tracks \in TrackInputs :
          CreateDiskImage(parentItem, imageType, fileName, diskLabel, tracks)
    \/ \E result \in Results : ActionReturns(result)

TreeInit ==
    /\ tpc = "idle"
    /\ drop = NoDrop
    /\ locals = NoLocals
    /\ calls = <<>>
    /\ returns = <<>>
    /\ reports = <<>>
    /\ refreshes = 0

TreeNext == DropNext \/ ActionsNext

(***************************************************************************)
(* KickassemblerService: the three line patterns of parseDiagnostics.      *)
(***************************************************************************)
\* the characters of s from position a to position b, as far as s has them
Mid(s, a, b) ==
    LET lo == IF a < 1 THEN 1 ELSE a
        hi == IF b > Len(s) THEN Len(s) ELSE b
    IN  IF lo > hi THEN "" ELSE SubSeq(s, lo, hi)

\* \d
IsDigit(c) == \E i \in 1..10 : SubSeq(Digits, i, i) = c

\* \s, for the white space a build output holds within a line
IsSpace(c) == c \in {" ", "\t"}

\* . : any character but a line terminator
IsDot(c) == c \notin {"\n", "\r"}

RECURSIVE RunEnd(_, _, _)
\* the 1-based position of the last character of the longest run of
\* characters of one class (1: digits, 2: white space, 3: dot) that starts
\* at position i; i - 1 when the run is empty
RunEnd(s, i, class) ==
    IF i > Len(s) THEN i - 1
    ELSE LET c == Mid(s, i, i)
             in == CASE class = 1 -> IsDigit(c)
                     [] class = 2 -> IsSpace(c)
                     [] class = 3 -> IsDot(c)
         IN  IF in THEN RunEnd(s, i + 1, class) ELSE i - 1

RECURSIVE RunStart(_, _)
\* the position of the first character of the longest run of digits that
\* ends at position j; j + 1 when the run is empty
RunStart(s, j) ==
    IF j < 1 \/ ~IsDigit(Mid(s, j, j)) THEN j + 1 ELSE RunStart(s, j - 1)

RECURSIVE IndexFrom(_, _, _)
\* the position of the first occurrence of sub at or after position i; 0: none
IndexFrom(s, sub, i) ==
    IF i + Len(sub) - 1 > Len(s) THEN 0
    ELSE IF Mid(s, i, i + Len(sub) - 1) = sub THEN i
    ELSE IndexFrom(s, sub, i + 1)

RECURSIVE ParseInt(_)
\* parseInt(str, 10) of a string of digits
ParseInt(str) ==
    IF Len(str) = 0 THEN 0
    ELSE ParseInt(Mid(str, 1, Len(str) - 1)) * 10
         + ((CHOOSE i \in 1..10 :
                Mid(Digits, i, i) = Mid(str, Len(str), Len(str))) - 1)

\* a match's capture groups; ok: the pattern matched
NoMatch == [ok |-> FALSE, lineStr |-> "", colStr |-> "", severityStr |-> "", msg |-> ""]

Match(lineStr, colStr, severityStr, msg) ==
    [ok |-> TRUE, lineStr |-> lineStr, colStr |-> colStr,
     severityStr |-> severityStr, msg |-> msg]

\* \s*(.+) from position q to where the dots end: the white space is skipped
\* unless nothing but white space follows, of which the last character is
\* then the message; "" when there is no character to match
TrailingMessage(s, q) ==
    LET e == RunEnd(s, q, 3)
        w == RunEnd(s, q, 2)
    IN  IF e < q THEN ""
        ELSE IF w < e THEN Mid(s, w + 1, e)
        ELSE Mid(s, e, e)

\* format1Regex tried with its '(' at position i:
\* \(([^)]+)\s+(\d+):(\d+)\)\s*(Error|Warning):\s*(.+)
Format1At(s, i) ==
    LET k  == IndexFrom(s, ")", i + 1)          \* the ')' that closes
        cs == RunStart(s, k - 1)                \* (\d+) before it
        ls == RunStart(s, cs - 2)               \* (\d+) before the ':'
        p  == RunEnd(s, k + 1, 2) + 1           \* after \)\s*
        severityStr ==
            IF Mid(s, p, p + 5) = "Error:" THEN "Error"
            ELSE IF Mid(s, p, p + 7) = "Warning:" THEN "Warning"
            ELSE ""
        q  == p + Len(severityStr) + 1
        msg == TrailingMessage(s, q)
    IN  IF /\ Mid(s, i, i) = "("
           /\ k > 0
           /\ cs <= k - 1                                   \* a column
           /\ cs - 1 > i /\ Mid(s, cs - 1, cs - 1) = ":"
           /\ ls <= cs - 2                                  \* a line
           /\ ls - 1 > i /\ IsSpace(Mid(s, ls - 1, ls - 1))
           /\ ls - 2 > i                                    \* ([^)]+)
           /\ severityStr # ""
           /\ msg # ""
        THEN Match(Mid(s, ls, cs - 2), Mid(s, cs, k - 1), severityStr, msg)
        ELSE NoMatch

\* line.match(format1Regex): the leftmost match
MatchFormat1(line) ==
    LET I == {i \in 1..Len(line) : Format1At(line, i).ok}
    IN  IF I = {} THEN NoMatch ELSE Format1At(line, MinOf(I))

\* format2Regex tried at position i: at line (\d+), column (\d+) in (.+)
Format2At(s, i) ==
    LET a  == i + Len("at line ")
        ae == RunEnd(s, a, 1)
        b  == ae + 1 + Len(", column ")
        be == RunEnd(s, b, 1)
        c  == be + 1 + Len(" in ")
    IN  IF /\ Mid(s, i, a - 1) = "at line "
           /\ ae >= a
           /\ Mid(s, ae + 1, b - 1) = ", column "
           /\ be >= b
           /\ Mid(s, be + 1, c - 1) = " in "
           /\ RunEnd(s, c, 3) >= c
        THEN Match(Mid(s, a, ae), Mid(s, b, be), "", "")
        ELSE NoMatch

\* line.match(format2Regex): the leftmost match
MatchFormat2(line) ==
    LET I == {i \in 1..Len(line) : Format2At(line, i).ok}
    IN  IF I = {} THEN NoMatch ELSE Format2At(line, MinOf(I))

\* line.match(format3Regex): ^([^:]+):(\d+):\s*(.+)$
MatchFormat3(line) ==
    LET c1 == IndexFrom(line, ":", 1)
        de == RunEnd(line, c1 + 1, 1)
        msg == TrailingMessage(line, de + 2)
    IN  IF /\ c1 > 1
           /\ de >= c1 + 1
           /\ Mid(line, de + 1, de + 1) = ":"
           /\ RunEnd(line, de + 2, 3) = Len(line)
           /\ msg # ""
        THEN Match(Mid(line, c1 + 1, de), "", "", msg)
        ELSE NoMatch

(***************************************************************************)
(* KickassemblerService: assemble and parseDiagnostics.                    *)
(***************************************************************************)
\* the lines of an output
MaxLines == 2

\* the source files a build is started on
SourceFiles == {"/w/main.asm", "/w/lib.asm"}

\* the setting c64.kickassJarPath: not set, set to a file that is not there,
\* set to the assembler
JarPaths == {"", "/missing/KickAss.jar", "/opt/KickAss.jar"}

\* fs.existsSync(kickassJarPath)
ExistsSync(kickassJarPath) == kickassJarPath = "/opt/KickAss.jar"

\* the lines the assembler may write: errors and warnings of the first format,
\* two with the severity in another letter case, the second and the third
\* format, a line of the second format that the third pattern matches too,
\* and lines that report nothing
OutputLines ==
    { "(main.asm 19:1) Error: Too few arguments",
      "(lib.asm 3:7) Warning: Unused label",
      "(main.asm 2:5) error: Bad opcode",
      "(main.asm 4:2) WARNING: Unused label",
      "at line 19, column 1 in main.asm",
      "    at line 3, column 7 in lib.asm",
      "at line 4, column 2 in lib.asm:12: note",
      "main.asm:10: Unknown mnemonic",
      "",
      "Made 2 asserts, 0 failed",
      "Output dir: /w" }

RECURSIVE Join(_)
\* the lines as one text, a line feed between them
Join(ls) ==
    IF Len(ls) = 0 THEN ""
    ELSE IF Len(ls) = 1 THEN ls[1]
    ELSE ls[1] \o "\n" \o Join(Tail(ls))

\* stdout + stderr of a build
Outputs == {Join(ls) : ls \in UNION {[1..n -> OutputLines] : n \in 0..MaxLines}}

RECURSIVE Split(_)
\* output.split('\n')
Split(output) ==
    LET i == IndexFrom(output, "\n", 1)
    IN  IF i = 0 THEN <<output>>
        ELSE <<Mid(output, 1, i - 1)>> \o Split(Mid(output, i + 1, Len(output)))

\* the callback's error: null, an exit code other than 0, killed at the timeout
ExecErrors == {"none", "exit", "killed"}

\* vscode.Diagnostic: the start of its range, its message, its severity
Diagnostic(lineNum, col, message, severity) ==
    [line |-> lineNum, column |-> col, message |-> message, severity |-> severity]

\* a parser to which every line is an error
SeverityOf_AlwaysError(severityStr) == "Error"

\* severityStr.toLowerCase() === 'warning' ? Warning : Error
SeverityOf(severityStr) ==
    IF ToLowerCase(severityStr) = "warning" THEN "Warning" ELSE "Error"

\* a parser that remembers no message
MessageOrLine_Line(lastError, line) == line

\* lastError || line
MessageOrLine(lastError, line) == IF lastError # "" THEN lastError ELSE line

\* a parser that reports every line
ParseLine_EveryLine(line, lastError) ==
    [pushed |-> <<Diagnostic(0, 0, line, "Error")>>, lastError |-> lastError]

\* a loop body that tries the third pattern before the second
ParseLine_GenericFirst(line, lastError) ==
    LET m1 == MatchFormat1(line)
        m2 == MatchFormat2(line)
        m3 == MatchFormat3(line)
    IN  IF m1.ok
        THEN [pushed |-> <<Diagnostic(ParseInt(m1.lineStr) - 1,
                                      ParseInt(m1.colStr) - 1, m1.msg,
                                      SeverityOf(m1.severityStr))>>,
              lastError |-> m1.msg]
        ELSE IF m3.ok
        THEN [pushed |-> <<Diagnostic(ParseInt(m3.lineStr) - 1, 0, m3.msg, "Error")>>,
              lastError |-> lastError]
        ELSE IF m2.ok
        THEN [pushed |-> <<Diagnostic(ParseInt(m2.lineStr) - 1,
                                      ParseInt(m2.colStr) - 1,
                                      MessageOrLine(lastError, line), "Error")>>,
              lastError |-> lastError]
        ELSE [pushed |-> <<>>, lastError |-> lastError]

\* the body of the loop for one line: the diagnostics it pushes, and lastError
ParseLine(line, lastError) ==
    LET m1 == MatchFormat1(line)
        m2 == MatchFormat2(line)
        m3 == MatchFormat3(line)
    IN  IF m1.ok
        THEN [pushed |-> <<Diagnostic(ParseInt(m1.lineStr) - 1,
                                      ParseInt(m1.colStr) - 1, m1.msg,
                                      SeverityOf(m1.severityStr))>>,
              lastError |-> m1.msg]
        ELSE IF m2.ok
        THEN [pushed |-> <<Diagnostic(ParseInt(m2.lineStr) - 1,
                                      ParseInt(m2.colStr) - 1,
                                      MessageOrLine(lastError, line), "Error")>>,
              lastError |-> lastError]
        ELSE IF m3.ok
        THEN [pushed |-> <<Diagnostic(ParseInt(m3.lineStr) - 1, 0, m3.msg, "Error")>>,
              lastError |-> lastError]
        ELSE [pushed |-> <<>>, lastError |-> lastError]

NoBuild == [filePath |-> "", output |-> "", error |-> "none", others |-> FALSE]

NoParse == [lines |-> <<>>, lastError |-> "", diagnostics |-> <<>>]

\* the collection with no record
Cleared == [f \in SourceFiles |-> <<>>]

\* a service that clears nothing before it builds
Clear_Kept(collection) == collection

\* diagnosticCollection.clear()
Clear(collection) == [f \in DOMAIN collection |-> <<>>]

\* a service that never sets what it parsed
SetFor_Never(collection, filePath, diagnostics) == collection

\* diagnosticCollection.set(uri, diagnostics)
SetFor(collection, filePath, diagnostics) ==
    [collection EXCEPT ![filePath] = diagnostics]

\* assemble up to the exec call
Assemble(filePath, kickassJarPath) ==
    /\ kpc = "idle"
    /\ IF kickassJarPath = ""
       THEN /\ notice' = "Kick Assembler JAR path not configured. Please set c64.kickassJarPath in settings."
            /\ UNCHANGED <<kpc, build, diagnosticCollection>>
       ELSE IF ~ExistsSync(kickassJarPath)
       THEN /\ notice' = "Kick Assembler JAR not found at: " \o kickassJarPath
            /\ UNCHANGED <<kpc, build, diagnosticCollection>>
       ELSE /\ diagnosticCollection' = Clear(diagnosticCollection)
            /\ build' = [filePath |-> filePath, output |-> "", error |-> "none",
                         others |-> \E f \in SourceFiles \ {filePath} :
                                       diagnosticCollection[f] # <<>>]
            /\ kpc' = "exec"
            /\ notice' = ""
    /\ UNCHANGED <<parse, syncVars, treeVars, viewVars>>

\* the exec callback: parseDiagnostics begins
ExecReturns(output, error) ==
    /\ kpc = "exec"
    /\ build' = [build EXCEPT !.output = output, !.error = error]
    /\ parse' = [lines |-> Split(output), lastError |-> "", diagnostics |-> <<>>]
    /\ kpc' = "parse"
    /\ UNCHANGED <<diagnosticCollection, notice, syncVars, treeVars, viewVars>>

\* parseDiagnostics looks at its next line
ParseStep ==
    /\ kpc = "parse"
    /\ parse.lines # <<>>
    /\ LET r == ParseLine(Head(parse.lines), parse.lastError)
       IN  parse' = [lines |-> Tail(parse.lines), lastError |-> r.lastError,
                     diagnostics |-> parse.diagnostics \o r.pushed]
    /\ UNCHANGED <<kpc, build, diagnosticCollection, notice, syncVars, treeVars, viewVars>>

\* what assemble shows when the build is over
BuildMessage(b) ==
    IF b.error = "killed" THEN "Assembly timeout - process exceeded 60 seconds"
    ELSE IF b.error = "exit" THEN "Assembly failed. Check Problems panel for errors."
    ELSE "Assembly successful: " \o PathBasename(b.filePath)

\* parseDiagnostics sets the diagnostics; assemble shows the outcome
ParseEnds ==
    /\ kpc = "parse"
    /\ parse.lines = <<>>
    /\ diagnosticCollection' =
          SetFor(diagnosticCollection, build.filePath, parse.diagnostics)
    /\ notice' = BuildMessage(build)
    /\ parse' = NoParse
    /\ kpc' = "idle"
    /\ UNCHANGED <<build, syncVars, treeVars, viewVars>>

BuildInit ==
    /\ kpc = "idle"
    /\ build = NoBuild
    /\ parse = NoParse
    /\ diagnosticCollection = Cleared
    /\ notice = ""

BuildNext ==
    \/ \E filePath \in SourceFiles, kickassJarPath \in JarPaths :
          Assemble(filePath, kickassJarPath)
    \/ /\ kpc = "exec"
       /\ \E output \in Outputs, error \in ExecErrors : ExecReturns(output, error)
    \/ ParseStep
    \/ ParseEnds

(***************************************************************************)
(* The specifications.                                                     *)
(***************************************************************************)
(***************************************************************************)
(* C64UFileSystemProvider.getChildren.                                     *)
(***************************************************************************)
\* the largest number of entries of a directory listing
MaxFiles == 3

\* a tree item: label, collapsible state, item type, resource path
TreeItem(label, state, itemType, resourcePath) ==
    [label |-> label, state |-> state, itemType |-> itemType,
     resourcePath |-> resourcePath]

\* getChildren called without element
NoElement == TreeItem("", "None", "undefined", "")

MACHINE_ACTIONS ==
    << [label |-> "Reset", action |-> "reset"],
       [label |-> "Reboot", action |-> "reboot"],
       [label |-> "Pause", action |-> "pause"],
       [label |-> "Resume", action |-> "resume"],
       [label |-> "Power Off", action |-> "poweroff"] >>

\* the two sources of the provider: the one with the Machine section, and
\* src/c64u/treeview.ts
Providers == {"sections", "treeview.ts"}

\* the nodes getChildren is called on: none, the two sections, a directory
\* below the root, a directory below that, a disk image
Elements ==
    { NoElement,
      TreeItem("Machine", "Expanded", "machine-root", "__machine__"),
      TreeItem("File System", "Expanded", "filesystem-root", "/"),
      TreeItem("A", "Collapsed", "directory", "/A"),
      TreeItem("B", "Collapsed", "directory", "/A/B"),
      TreeItem("d.d64", "Collapsed", "diskimage", "/A/d.d64") }

\* the nodes each provider makes: treeview.ts has no sections
ElementsOf(provider) ==
    IF provider = "sections" THEN Elements
    ELSE {e \in Elements : e.itemType \notin {"machine-root", "filesystem-root"}}

\* the entries 'fs ls --json' can report
RawFiles ==
    { [Name |-> "B", IsDir |-> TRUE],
      [Name |-> "a.asm", IsDir |-> FALSE],
      [Name |-> "X.PRG", IsDir |-> FALSE],
      [Name |-> "d.d64", IsDir |-> FALSE] }

\* null: the call failed or its output could not be parsed
NullFiles == <<[Name |-> "<null>", IsDir |-> FALSE]>>

\* no listing was asked for
NotListed == <<[Name |-> "<not listed>", IsDir |-> FALSE]>>

\* the listings: null, or up to MaxFiles different entries in any order
RawListings ==
    {NullFiles} \cup
    UNION {{l \in [1..n -> RawFiles] : \A i, j \in 1..n : l[i] = l[j] => i = j}
              : n \in 0..MaxFiles}

\* C64UClient.listFiles: "Convert from API format to our format"
ListFiles(targetPath, rawFiles) ==
    [i \in 1..Len(rawFiles) |->
        [name |-> rawFiles[i].Name, is_dir |-> rawFiles[i].IsDir,
         path |-> IF targetPath = "/" THEN "/" \o rawFiles[i].Name
                  ELSE targetPath \o "/" \o rawFiles[i].Name]]

\* the order of the characters of names under localeCompare: punctuation,
\* digits, letters, a lower-case letter with its upper-case one
Collation == "_-.0123456789abcdefghijklmnopqrstuvwxyz"

CollationRank(c) ==
    LET I == {i \in 1..Len(Collation) : SubSeq(Collation, i, i) = LowerChar(c)}
    IN  IF I = {} THEN 0 ELSE MinOf(I)

\* a.localeCompare(b), for names that do not differ in letter case only
RECURSIVE LocaleCompare(_, _)
LocaleCompare(a, b) ==
    IF a = "" /\ b = "" THEN 0
    ELSE IF a = "" THEN -1
    ELSE IF b = "" THEN 1
    ELSE LET ra == CollationRank(SubSeq(a, 1, 1))
             rb == CollationRank(SubSeq(b, 1, 1))
         IN  IF ra < rb THEN -1
             ELSE IF ra > rb THEN 1
             ELSE LocaleCompare(SubSeq(a, 2, Len(a)), SubSeq(b, 2, Len(b)))

\* "Sort: directories first, then files": the comparator
CompareFiles(a, b) ==
    IF a.is_dir = b.is_dir THEN LocaleCompare(a.name, b.name)
    ELSE IF a.is_dir THEN -1 ELSE 1

\* files.sort(...): a stable sort
RECURSIVE SortFiles(_)
SortFiles(files) ==
    IF files = <<>> THEN <<>>
    ELSE LET f == Head(files)
             rest == SortFiles(Tail(files))
             before == {i \in 1..Len(rest) : CompareFiles(f, rest[i]) <= 0}
             k == IF before = {} THEN Len(rest) + 1 ELSE MinOf(before)
         IN  SubSeq(rest, 1, k - 1) \o <<f>> \o SubSeq(rest, k, Len(rest))

getItemType(file) ==
    LET ext == ToLowerCase(PathExtname(file.name))
    IN  IF file.is_dir THEN "directory"
        ELSE IF ext \in {".d64", ".d71", ".d81"} THEN "diskimage"
        ELSE IF ext \in {".g64", ".g71"} THEN "diskimage-gcr"
        ELSE IF ext = ".prg" THEN "program"
        ELSE IF ext = ".sid" THEN "sid"
        ELSE IF ext = ".crt" THEN "cartridge"
        ELSE IF ext \in {".asm", ".bas", ".seq", ".txt", ".cfg", ".inc", ".sym", ".dbg"}
        THEN "textfile"
        ELSE IF ext \in {".bin", ".tap", ".t64", ".rel", ".ko"} THEN "binaryfile"
        ELSE "file"

\* the item of one listed file
FileItem(targetPath, file) ==
    LET fullPath == IF targetPath = "/" THEN "/" \o file.name
                    ELSE targetPath \o "/" \o file.name
        isDiskImage == ToLowerCase(PathExtname(file.name))
                          \in {".d64", ".d71", ".d81", ".g64", ".g71", ".dnp"}
    IN  TreeItem(file.name,
                 IF file.is_dir \/ isDiskImage THEN "Collapsed" ELSE "None",
                 getItemType(file), fullPath)

\* the '..' entry of a directory
ParentItem(targetPath) ==
    LET cut == Substring(targetPath, 0, MaxOf({0, LastIndexOf(targetPath, "/")}))
    IN  TreeItem("..", "None", "parent", IF cut = "" THEN "/" ELSE cut)

EmptyItem(targetPath) == TreeItem("Empty directory", "None", "message", targetPath)

\* the path getChildren lists
TargetPath(provider, element) ==
    IF provider = "sections"
    THEN IF element.itemType = "filesystem-root" THEN "/" ELSE element.resourcePath
    ELSE IF element # NoElement THEN element.resourcePath ELSE "/"

\* "Add parent directory entry if not at root"
WithParent(provider, element, targetPath) ==
    IF provider = "sections" THEN targetPath # "/"
    ELSE targetPath # "/" /\ element = NoElement

\* "If directory is empty, show a friendly message": the test
ShowsEmpty(provider, items, targetPath) ==
    IF provider = "sections" THEN Len(items) = 0
    ELSE Len(items) = 0 /\ targetPath # "/"

\* the children of a file-system node, its listing being there
FileSystemChildren(provider, element, files) ==
    LET targetPath == TargetPath(provider, element)
        sorted == SortFiles(files)
        items == (IF WithParent(provider, element, targetPath)
                  THEN <<ParentItem(targetPath)>> ELSE <<>>)
                 \o [i \in 1..Len(sorted) |-> FileItem(targetPath, sorted[i])]
    IN  IF ShowsEmpty(provider, items, targetPath)
        THEN <<EmptyItem(targetPath)>>
        ELSE items

\* getChildren up to its listing call, or to its end
GetChildren(provider, element, enabled) ==
    /\ vpc = "idle"
    /\ view' = [provider |-> provider, element |-> element, rawFiles |-> NotListed]
    /\ vnotice' = ""
    /\ IF ~enabled
       THEN /\ children' = <<TreeItem("C64 Ultimate integration disabled", "None",
                                      "message", "/")>>
            /\ vpc' = "idle"
       ELSE IF provider = "sections" /\ element = NoElement
       THEN /\ children' =
                  << TreeItem("Machine", "Expanded", "machine-root", "__machine__"),
                     TreeItem("File System", "Expanded", "filesystem-root", "/") >>
            /\ vpc' = "idle"
       ELSE IF provider = "sections" /\ element.itemType = "machine-root"
       THEN /\ children' =
                  [i \in 1..Len(MACHINE_ACTIONS) |->
                      TreeItem(MACHINE_ACTIONS[i].label, "None", "machine-action",
                               "__machine__/" \o MACHINE_ACTIONS[i].action)]
            /\ vpc' = "idle"
       ELSE /\ children' = <<>>
            /\ vpc' = "ls"
    /\ UNCHANGED <<syncVars, treeVars, buildVars>>

\* the listing call returns: listFiles throws on null, getChildren returns
\* the items or, from its catch block, the error item
ListReturns(rawFiles) ==
    /\ vpc = "ls"
    /\ IF rawFiles = NullFiles
       THEN /\ vnotice' = "Failed to list C64U directory: Failed to list files"
            /\ children' = <<TreeItem("Failed to load directory", "None", "error", "/")>>
       ELSE /\ vnotice' = ""
            /\ children' = FileSystemChildren(view.provider, view.element,
                              ListFiles(TargetPath(view.provider, view.element), rawFiles))
    /\ view' = [view EXCEPT !.rawFiles = rawFiles]
    /\ vpc' = "idle"
    /\ UNCHANGED <<syncVars, treeVars, buildVars>>

ViewInit ==
    /\ vpc = "idle"
    /\ view = [provider |-> "sections", element |-> NoElement, rawFiles |-> NotListed]
    /\ children = <<>>
    /\ vnotice = ""

ViewNext ==
    \/ \E provider \in Providers, enabled \in BOOLEAN :
          \E element \in ElementsOf(provider) : GetChildren(provider, element, enabled)
    \/ vpc = "ls" /\ \E rawFiles \in RawListings : ListReturns(rawFiles)

Init == SyncInit /\ TreeInit /\ BuildInit /\ ViewInit

\* the file-open manager with its editor and its uploads
SpecSync == Init /\ [][SyncNext /\ UNCHANGED <<treeVars, buildVars, viewVars>>]_vars

\* the same, every upload call succeeding
SpecSyncUploadsSucceed ==
    Init /\ [][SyncNextUploadsSucceed /\ UNCHANGED <<treeVars, buildVars, viewVars>>]_vars

\* the tree view with its drops and its actions
SpecTree == Init /\ [][TreeNext]_vars

\* handleDrop goes on: the remote call it awaits returns, or its loop takes
\* the next entry; either way it is at another place afterwards
Resumed ==
    /\ tpc \in {"loop", "ls", "mv", "cp", "rm"}
    /\ tpc' \in {"idle", "loop", "ls", "mv", "cp", "rm"}
    /\ tpc' # tpc

\* the tree view, every remote call of a drop returning and handleDrop going
\* on after it
SpecTreeFair == Init /\ [][TreeNext]_vars /\ WF_tpc(Resumed)

\* the assembler service with its builds
SpecBuild == Init /\ [][BuildNext]_vars

\* the tree view's data provider with its listings
SpecView == Init /\ [][ViewNext]_vars

(***************************************************************************)
(* Properties of the file-open manager.                                    *)
(***************************************************************************)
\* this step delivers a save event for localPath to the watcher
SaveDelivered(localPath) ==
    /\ "save" \in step'
    /\ nEvents' = nEvents + 1
    /\ localFile'[localPath] = Content(nEvents + 1)

\* the upload calls in flight, by path and number
Calls(S) == {<<u.localPath, u.id>> : u \in S}

\* C1: for a tracked text file, once no upload of it is in flight the remote
\* file holds the content of the most recent save event (every upload call
\* succeeding: checked under SpecSyncUploadsSucceed).
C1_EverySaveUploaded ==
    \A p \in LocalPaths :
        (Tracked(p) /\ lastSave[p] # Absent /\ InFlight(p) = {})
            => remoteFile[fileMap[p].remotePath] = lastSave[p]

\* C2: a save event for a tracked text path that arrives while an upload of
\* that path is in flight issues no upload call and leaves the calls in flight
\* as they are; and the return of an upload call issues no upload call either
\* (nothing was queued).
C2_DroppedNotQueued ==
    [][ /\ \A p \in LocalPaths :
              (SaveDelivered(p) /\ Tracked(p) /\ InFlight(p) # {})
                  => /\ "call:upload" \notin step'
                     /\ "call:upload:throw" \notin step'
                     /\ uploads' = uploads
        /\ (step' \cap {"upload:ok", "upload:fail"} # {})
              => /\ "call:upload" \notin step'
                 /\ Calls(uploads') \subseteq Calls(uploads)
                 /\ Calls(uploads') # Calls(uploads) ]_vars

\* C2 witness: the step just taken delivered a save of a tracked path, issued no
\* call, and an upload of that path, which has already read the file, is in flight.
C2_Witness ==
    \E p \in LocalPaths :
        /\ step = {"save"}
        /\ Tracked(p)
        /\ lastSave[p] = Content(nEvents)
        /\ \E u \in InFlight(p) : u.phase = "read" /\ u.data # lastSave[p]

\* C3: a local path is in the upload guard exactly when one upload call for it
\* is in flight, and never are two upload calls for one path in flight.
C3_GuardIffOneInFlight ==
    \A p \in LocalPaths :
        /\ (p \in uploading) <=> (Cardinality(InFlight(p)) = 1)
        /\ Cardinality(InFlight(p)) <= 1

\* C3 witness: uploads of two different paths are in flight at the same time,
\* each path in the guard.
C3_Witness ==
    \E p, q \in LocalPaths :
        /\ p # q
        /\ {p, q} \subseteq uploading
        /\ InFlight(p) # {}
        /\ InFlight(q) # {}

\* C4: when an upload call ends (success or failure, or a throw within the
\* save step) its path leaves the guard; the guard holds no path without a call
\* in flight; and a save of a tracked path with no call in flight issues a new
\* upload call.
C4_GuardClearedOnReturn ==
    [][ /\ \A u \in uploads :
              (<<u.localPath, u.id>> \notin Calls(uploads'))
                  => u.localPath \notin uploading'
        /\ \A p \in uploading' : \E u \in uploads' : u.localPath = p
        /\ \A p \in LocalPaths :
              (SaveDelivered(p) /\ Tracked(p) /\ InFlight(p) = {})
                  => step' \cap {"call:upload", "call:upload:throw"} # {} ]_vars

\* C4 witness: an upload of the path has ended before (the remote file holds a
\* saved content) and the step just taken, a save, has started a new one.
C4_Witness ==
    \E p \in LocalPaths :
        /\ Tracked(p)
        /\ remoteFile[fileMap[p].remotePath] \notin {Original, lastSave[p]}
        /\ step = {"save", "call:upload"}
        /\ lastSave[p] = Content(nEvents)
        /\ p \in uploading

\* C5: a save event for a path with no entry in the mapping, or with a binary
\* entry, issues no upload call and changes neither the mapping nor the guard.
C5_UntrackedSaveIgnored ==
    [][ \A p \in LocalPaths :
            (SaveDelivered(p) /\ (fileMap[p] = NoEntry \/ ~fileMap[p].isText))
                => /\ step' = {"save"}
                   /\ uploads' = uploads
                   /\ fileMap' = fileMap
                   /\ uploading' = uploading ]_vars

\* C5 witness: the step just taken delivered a save of a path whose entry is
\* binary.
C5_Witness ==
    \E p \in LocalPaths :
        /\ step = {"save"}
        /\ localFile[p] = Content(nEvents)
        /\ fileMap[p] # NoEntry
        /\ ~fileMap[p].isText

\* C6: a download call that fails (or throws) leaves the mapping as it is and
\* presents nothing; the mapping changes only by dispose or by the successful
\* return of a download of the very path whose entry is written.
C6_FailedDownloadRegistersNothing ==
    [][ /\ (step' \cap {"download:fail", "download:throw"} # {})
              => fileMap' = fileMap /\ "show" \notin step'
        /\ \A p \in LocalPaths :
              (fileMap'[p] # fileMap[p] /\ fileMap'[p] # NoEntry)
                  => /\ "download:ok" \in step'
                     /\ \E o \in opens \ opens' :
                            /\ o.phase = "download"
                            /\ o.localPath = p
                            /\ fileMap'[p].remotePath = o.remotePath ]_vars

\* C6 witness: the step just taken is the failed return of a download, and the
\* mapping is still empty though nothing was disposed.
C6_Witness ==
    /\ "download:fail" \in step
    /\ ~disposed
    /\ \A p \in LocalPaths : fileMap[p] = NoEntry

(***************************************************************************)
(* Properties of the tree view.                                            *)
(***************************************************************************)
\* the commands of the calls issued, in order
Cmds == [i \in 1..Len(calls) |-> calls[i].cmd]

\* the drop landed on no node, or on a node that is no directory and whose
\* parent is the root
LandedInRoot ==
    \/ drop.target = NoItem
    \/ /\ drop.target.itemType # "directory"
       /\ PathDirname(drop.target.resourcePath) = "/"

\* C7: a drop whose target directory resolves to the root '/' (dropped on no
\* node, or on a non-directory node whose parent is the root) is rejected for
\* the whole batch: the rejection is its only message, no entry is taken up
\* and no remote call (ls, mv, cp, rm) is issued.
C7_RootDropIssuesNoCall ==
    (drop.items # <<>> /\ (LandedInRoot \/ drop.targetDir = "/"))
        => /\ drop.targetDir = "/"
           /\ calls = <<>>
           /\ returns = <<>>
           /\ tpc = "idle"
           /\ drop.item = NoItem
           /\ reports = <<Report("error", RootRejection)>>

C7_Witness ==
    /\ drop.target = Item("program", "/X.PRG")
    /\ Len(drop.items) = MaxItems
    /\ \E i \in 1..Len(drop.items) : drop.items[i] = Item("program", "/B/FOO.PRG")
    /\ reports = <<Report("error", RootRejection)>>
    /\ calls = <<>>

\* C8: no tree-view action (drop, copy, upload, create disk image) issues a
\* remote call whose destination is a file directly in the root '/'.
C8_NoCallWritesIntoRoot ==
    \A i \in 1..Len(calls) :
        calls[i].dst # "" => PathDirname(calls[i].dst) # "/"

\* the name with _k put before its extension (before the last dot that is not
\* its first character), or after it when it has none
Numbered(name, k) ==
    LET dot == LastIndexOf(name, ".")
    IN  IF dot > 0
        THEN Substring(name, 0, dot) \o "_" \o NumberToString(k)
             \o SubstringFrom(name, dot)
        ELSE name \o "_" \o NumberToString(k)

\* the name the mv call was given: the last part of its destination
MvName == SubstringFrom(calls[2].dst, LastIndexOf(calls[2].dst, "/") + 1)

\* C9: when the listing of the target directory succeeded, the name the mv
\* call is given is the original name if the listing does not hold it, and
\* otherwise base_k+ext for the smallest k >= 1 whose name the listing does
\* not hold; either way it is not one of the listed names, and it is in the
\* target directory.
C9_DestinationNameIsFree ==
    (Len(calls) >= 2 /\ calls[2].cmd = "mv" /\ locals.targetFiles # NullListing)
        => LET L == locals.targetFiles
               fileName == locals.fileName
           IN  /\ calls[2].dst = drop.targetDir \o "/" \o MvName
               /\ MvName \notin L
               /\ fileName \notin L => MvName = fileName
               /\ fileName \in L =>
                     \E k \in 1..(Cardinality(L) + 1) :
                        /\ MvName = Numbered(fileName, k)
                        /\ \A j \in 1..(k - 1) : Numbered(fileName, j) \in L

C9_Witness ==
    /\ tpc = "mv"
    /\ locals.fileName = "FOO.PRG"
    /\ {"FOO.PRG", "FOO_1.PRG"} \subseteq locals.targetFiles
    /\ calls[2] = Call("mv", "/B/FOO.PRG", "/A/FOO_2.PRG", <<>>)

\* the message of a move that succeeded, as the user reads it
MovedMessage ==
    IF locals.finalFileName = locals.fileName
    THEN "Moved " \o locals.fileName \o " to " \o drop.targetDir
    ELSE "Moved " \o locals.fileName \o " to " \o drop.targetDir \o "/"
         \o locals.finalFileName \o " (renamed to avoid conflict)"

\* the entry's mv failed with the cross-device code, its cp and its rm succeeded
FallbackSucceeded ==
    /\ Cmds = <<"ls", "mv", "cp", "rm">>
    /\ Len(returns) = 4
    /\ ~returns[2].success /\ ~returns[2].thrown
    /\ StartsWith(returns[2].error, "450")
    /\ returns[3] = Ok
    /\ returns[4] = Ok

\* the entry's mv succeeded
MoveSucceeded == Cmds = <<"ls", "mv">> /\ Len(returns) = 2 /\ returns[2] = Ok

\* C10: for an entry whose mv fails with the cross-device code and whose cp
\* and rm then succeed, one outcome is reported, the "moved" one, the same as
\* after an mv that succeeded, with the rename note when the name was changed.
C10_FallbackReportsMoved ==
    (FallbackSucceeded \/ MoveSucceeded)
        => reports = <<Report("info", MovedMessage)>>

C10_Witness ==
    /\ FallbackSucceeded
    /\ locals.finalFileName = "LOADER_1"
    /\ reports = <<Report("info",
          "Moved LOADER to /A/LOADER_1 (renamed to avoid conflict)")>>

\* the entry's mv failed with the cross-device code, its cp succeeded, its rm
\* returned a failure
FallbackCopiedOnly ==
    /\ Cmds = <<"ls", "mv", "cp", "rm">>
    /\ Len(returns) = 4
    /\ ~returns[2].success /\ ~returns[2].thrown
    /\ StartsWith(returns[2].error, "450")
    /\ returns[3] = Ok
    /\ ~returns[4].success /\ ~returns[4].thrown

\* the entry's one message is neither the "moved" one nor a plain move failure
DistinctOutcome ==
    /\ Len(reports) = 1
    /\ reports[1].level = "error"
    /\ ~StartsWith(reports[1].text, "Moved ")
    /\ ~StartsWith(reports[1].text, "Failed to move")

FileNames == {"main.asm", "lib.asm"}

LineNumbers == {2, 3, 4, 10, 19}

ColumnNumbers == {1, 2, 5, 7}

Messages == {"Too few arguments", "Unused label", "Bad opcode", "Unknown mnemonic"}

Indents == {"", "    "}

\* a line of the primary form '(file L:C) Severity: msg'
PrimaryText(file, L, C, token, msg) ==
    "(" \o file \o " " \o NumberToString(L) \o ":" \o NumberToString(C) \o ") "
    \o token \o ": " \o msg

\* the primary-form lines with these severity tokens, each with the record it
\* stands for
PrimaryForms(tokens) ==
    { [text |-> PrimaryText(f, L, C, t, m),
       record |-> Diagnostic(L - 1, C - 1, m,
                     IF ToLowerCase(t) = "warning" THEN "Warning" ELSE "Error")] :
      f \in FileNames, L \in LineNumbers, C \in ColumnNumbers, t \in tokens,
      m \in Messages }

\* the primary-form lines as the assembler writes them
Primary == PrimaryForms({"Error", "Warning"})

\* the same with the severity in other letter cases
PrimaryOtherCase == PrimaryForms({"error", "ERROR", "warning", "WARNING"})

\* the continuation-form lines 'at line N, column M in file'
Continuation ==
    { [text |-> ind \o "at line " \o NumberToString(N) \o ", column "
                \o NumberToString(M) \o " in " \o f,
       line |-> N - 1, column |-> M - 1] :
      ind \in Indents, N \in LineNumbers, M \in ColumnNumbers,
      f \in FileNames \cup {"lib.asm:12: note"} }

\* the lines of the third form 'file:N: msg'
Third ==
    { [text |-> f \o ":" \o NumberToString(N) \o ": " \o m,
       record |-> Diagnostic(N - 1, 0, m, "Error")] :
      f \in FileNames, N \in LineNumbers, m \in Messages }

PrimaryTexts == {r.text : r \in Primary}

ReportingTexts ==
    PrimaryTexts \cup {r.text : r \in Continuation} \cup {r.text : r \in Third}

\* a build is over: its output has been parsed and its diagnostics are set
BuildOver == kpc = "idle" /\ build # NoBuild

\* the lines of the output of the build, the records held for its file
OutLines == Split(build.output)

Held == diagnosticCollection[build.filePath]

\* the place, among the records, of the record of line i of lines: the
\* reporting lines up to line i
RecordIndex(lines, i) == Cardinality({j \in 1..i : lines[j] \in ReportingTexts})

\* C12: every line of the primary form '(file L:C) Severity: msg' (Severity
\* being Error or Warning) yields one record, in the line's place among the
\* records, with line L-1, column C-1, the message msg, and the severity
\* warning for Warning and error for Error.
C12_PrimaryLineRecord ==
    BuildOver =>
        \A lines \in {OutLines} : \A i \in 1..Len(lines) : \A r \in Primary :
            lines[i] = r.text
                => /\ RecordIndex(lines, i) <= Len(Held)
                   /\ Held[RecordIndex(lines, i)] = r.record

C12_Witness ==
    /\ BuildOver
    /\ OutLines = <<"(lib.asm 3:7) Warning: Unused label",
                    "(main.asm 19:1) Error: Too few arguments">>
    /\ Held = <<Diagnostic(2, 6, "Unused label", "Warning"),
                Diagnostic(18, 0, "Too few arguments", "Error")>>

RECURSIVE Remembered(_, _)
\* the message of the last primary-form line among the first i lines; "" when
\* there is none
Remembered(lines, i) ==
    IF i = 0 THEN ""
    ELSE IF lines[i] \in PrimaryTexts
    THEN (CHOOSE r \in Primary : r.text = lines[i]).record.message
    ELSE Remembered(lines, i - 1)

\* C13: every continuation-form line 'at line N, column M in file' yields one
\* record, in the line's place among the records, with line N-1, column M-1
\* and severity error; its message is the message of the most recent
\* primary-form line before it in the output, or the continuation line's own
\* text when no primary-form line came before it.
C13_ContinuationLineRecord ==
    BuildOver =>
        \A lines \in {OutLines} : \A i \in 1..Len(lines) : \A r \in Continuation :
            lines[i] = r.text
                => /\ RecordIndex(lines, i) <= Len(Held)
                   /\ Held[RecordIndex(lines, i)] =
                        Diagnostic(r.line, r.column,
                            IF Remembered(lines, i - 1) # ""
                            THEN Remembered(lines, i - 1) ELSE lines[i],
                            "Error")

C13_Witness ==
    /\ BuildOver
    /\ OutLines = <<"(lib.asm 3:7) Warning: Unused label",
                    "at line 19, column 1 in main.asm">>
    /\ Held = <<Diagnostic(2, 6, "Unused label", "Warning"),
                Diagnostic(18, 0, "Unused label", "Error")>>

\* C14: records come only from lines that match one of the three patterns:
\* the records are as many as the matching lines, a line that matches none
\* adds none, and an output without a matching line (the empty output too)
\* leaves an empty list.
C14_RecordsOnlyForMatchingLines ==
    BuildOver =>
        \A lines \in {OutLines} :
            /\ Len(Held) = RecordIndex(lines, Len(lines))
            /\ (\A i \in 1..Len(lines) : lines[i] \notin ReportingTexts)
                  => Held = <<>>
            /\ build.output = "" => Held = <<>>

C14_Witness ==
    /\ BuildOver
    /\ OutLines = <<"Made 2 asserts, 0 failed", "main.asm:10: Unknown mnemonic">>
    /\ Held = <<Diagnostic(9, 0, "Unknown mnemonic", "Error")>>

\* C15: the severity of a primary-form line is told whatever the letter case
\* of its token: warning, WARNING yield a record of severity warning, error,
\* ERROR a record of severity error.
C15_SeverityInAnyCase ==
    BuildOver =>
        \A lines \in {OutLines} : \A i \in 1..Len(lines) :
            \A r \in PrimaryOtherCase :
                lines[i] = r.text
                    => \E k \in 1..Len(Held) : Held[k] = r.record

(***************************************************************************)
(* Properties of the file classification.                                  *)
(***************************************************************************)
\* file names to classify: extensions of the three classes in several letter
\* cases, no extension, a leading dot, two dots
ClassNames ==
    { "a.asm", "A.ASM", "b.Asm", "N.TXT", "n.txt", "g.prg", "G.PRG", "x.ko",
      "X.Ko", "b.t64", "s.sid", "S.SID", "disk.d64", "README", ".asm",
      "a.asm.bak", "a.bak.asm" }

\* the class of a file name
Class(name) ==
    IF IsTextName(name) THEN "text"
    ELSE IF IsBinaryName(name) THEN "binary"
    ELSE "unsupported"

\* the classification over ClassNames: one class for each name, no name both
\* text and binary, the class depending on the lower-cased extension only,
\* and openable meaning text or binary
ClassIsAFunctionOfTheExtension ==
    /\ TEXT_EXTENSIONS \cap BINARY_EXTENSIONS = {}
    /\ \A n \in ClassNames :
          /\ ~(IsTextName(n) /\ IsBinaryName(n))
          /\ Class(n) = "text" <=> IsTextName(n)
          /\ Class(n) = "binary" <=> IsBinaryName(n)
          /\ isOpenableFile(n) <=> Class(n) \in {"text", "binary"}
    /\ \A n, m \in ClassNames :
          ToLowerCase(PathExtname(n)) = ToLowerCase(PathExtname(m))
              => Class(n) = Class(m)

\* C16: classification is a total function of the lower-cased extension
\* alone: every name is in exactly one of text, binary, unsupported, names
\* whose extensions differ in letter case only are in the same class,
\* isOpenableFile is true exactly for text and binary; and openFile goes on
\* exactly for the names of these two classes, with the class as its isText.
C16_ClassByExtension ==
    /\ ClassIsAFunctionOfTheExtension
    /\ \A o \in opens :
          /\ isOpenableFile(o.label)
          /\ o.isText <=> Class(o.label) = "text"
    /\ \A p \in LocalPaths :
          fileMap[p] # NoEntry
              => (fileMap[p].isText <=> Class(fileMap[p].remotePath) = "text")

C16_Witness ==
    /\ \E o \in opens : o.label = "N.TXT" /\ o.isText
    /\ \E p \in LocalPaths :
          /\ fileMap[p] # NoEntry
          /\ fileMap[p].remotePath = "/d/g.prg"
          /\ ~fileMap[p].isText

(***************************************************************************)
(* Properties of the build's batch of diagnostics.                         *)
(***************************************************************************)
\* the records parseDiagnostics makes of the lines of an output, in order
RECURSIVE ParsedFrom(_, _)
ParsedFrom(lines, lastError) ==
    IF lines = <<>> THEN <<>>
    ELSE LET r == ParseLine(Head(lines), lastError)
         IN  r.pushed \o ParsedFrom(Tail(lines), r.lastError)

InEntry == calls # <<>> /\ calls[1].cmd = "ls"

\* the entry's cp call has returned, and not with success
CopyDidNotSucceed ==
    /\ InEntry
    /\ Len(returns) >= 3
    /\ calls[3].cmd = "cp"
    /\ returns[3] # Ok

\* C18: in an entry of a move batch an rm call is issued only after a cp
\* call of the same source to the entry's destination has returned success;
\* after a cp call that fails the entry issues no rm and no other call, and
\* its one message reports a failure.
C18_DeleteOnlyAfterCopy ==
    /\ InEntry =>
          \A i \in 1..Len(calls) :
             calls[i].cmd = "rm" =>
                /\ i = 4
                /\ calls[3] = Call("cp", calls[i].src, locals.finalPath, <<>>)
                /\ calls[i].src = drop.item.resourcePath
                /\ returns[3] = Ok
    /\ CopyDidNotSucceed =>
          /\ Len(calls) = 3
          /\ \A i \in 1..Len(calls) : calls[i].cmd # "rm"
          /\ tpc \in {"loop", "idle"}
          /\ Len(reports) = 1
          /\ reports[1].level = "error"
          /\ returns[3].thrown
                => reports[1].text = "Failed to move file: " \o returns[3].error
          /\ ~returns[3].thrown
                => reports[1].text = "Failed to copy " \o locals.fileName
                                     \o ": " \o returns[3].error

\* the cp of /B/FOO.PRG to /A/FOO_1.PRG was refused
C18_Witness ==
    /\ CopyDidNotSucceed
    /\ calls[3] = Call("cp", "/B/FOO.PRG", "/A/FOO_1.PRG", <<>>)
    /\ returns[3] = Result(FALSE, "550 Permission denied", FALSE)
    /\ reports = <<Report("error",
          "Failed to copy FOO.PRG: 550 Permission denied")>>

\* the call was refused with the device's cross-device reply, code 450
CrossDevice(result) ==
    ~result.success /\ ~result.thrown /\ StartsWith(result.error, "450")

\* C19: the entry issues a cp or an rm call only when its mv call was
\* refused with the cross-device reply; after an mv that succeeded, or one
\* that failed for another reason, the entry issues no further call, and the
\* other failure is reported as a move failure.
C19_FallbackOnlyOnCrossDevice ==
    (InEntry /\ Len(returns) >= 2) =>
        /\ (\E i \in 1..Len(calls) : calls[i].cmd \in {"cp", "rm"})
              => CrossDevice(returns[2])
        /\ returns[2] = Ok => Len(calls) = 2
        /\ (~returns[2].success /\ ~returns[2].thrown /\ ~CrossDevice(returns[2]))
              => /\ Len(calls) = 2
                 /\ reports = <<Report("error", "Failed to move "
                        \o locals.fileName \o ": " \o returns[2].error)>>

(***************************************************************************)
(* Properties of the loop over the entries of a move batch.                *)
(***************************************************************************)
\* the entries among these that are to be moved: no special item, and not
\* in the target directory already
Movable(items, targetDir) ==
    {i \in 1..Len(items) :
        /\ items[i].itemType \notin {"parent", "message", "error", "machine-root",
                                     "machine-action", "filesystem-root"}
        /\ PathDirname(items[i].resourcePath) # targetDir}

\* an entry is being worked on
AtEntry == tpc \in {"ls", "mv", "cp", "rm"}

\* C20: no step of an entry ends the batch, whatever the step's result is
\* (success, returned failure of mv, cp or rm, or exception): the entry ends
\* with one message of its own, the entries still to come stay as they are,
\* and the loop then takes up the next entry that is no special item and not
\* in the target directory already, with a listing call of its own and, once
\* that call has returned, an mv call of its own; the refresh comes only
\* when no such entry is left.
C20_BatchGoesOn ==
    [][ /\ AtEntry =>
              /\ tpc' \in {"mv", "cp", "rm", "loop"}
              /\ drop'.items = drop.items
              /\ drop'.item = drop.item
              /\ refreshes' = refreshes
              /\ tpc' = "loop" => Len(reports') = 1
              /\ tpc' # "loop" => reports' = <<>>
        /\ tpc = "loop" =>
              LET S == Movable(drop.items, drop.targetDir)
              IN  IF S = {}
                  THEN tpc' = "idle" /\ refreshes' = refreshes + 1
                  ELSE LET j == CHOOSE i \in S : \A k \in S : i <= k
                       IN  /\ tpc' = "ls"
                           /\ drop'.item = drop.items[j]
                           /\ drop'.items = SubSeq(drop.items, j + 1, Len(drop.items))
                           /\ calls' = <<Call("ls", drop.targetDir, "", <<>>)>>
                           /\ reports' = <<>>
                           /\ refreshes' = refreshes
        /\ (tpc = "ls" /\ ~returns'[1].thrown) =>
              /\ tpc' = "mv"
              /\ Len(calls') = 2
              /\ calls'[2].cmd = "mv"
              /\ calls'[2].src = drop.item.resourcePath
              /\ PathDirname(calls'[2].dst) = drop.targetDir
      ]_vars

\* the second entry of a batch was moved after the first one had failed
C20_Witness ==
    /\ tpc = "loop"
    /\ drop.errors = 1
    /\ drop.items = <<>>
    /\ drop.item = Item("file", "/B/LOADER")
    /\ calls = << Call("ls", "/A", "", <<>>),
                  Call("mv", "/B/LOADER", "/A/LOADER", <<>>) >>
    /\ reports = <<Report("info", "Moved LOADER to /A")>>

(***************************************************************************)
(* Properties of the refresh that ends a move batch.                       *)
(***************************************************************************)
\* handleDrop is in its loop
InBatch == AtEntry \/ tpc = "loop"

\* handleDrop has returned from a drop
DropOver == tpc = "idle" /\ drop # NoDrop

\* handleDrop has returned from a drop whose target directory is not the root
BatchOver == DropOver /\ drop.targetDir # "/"

\* C21 (as stated): every move batch ends with one refresh of the tree view,
\* fired after the last remote call of the batch has returned.
C21_EveryBatchRefreshes ==
    /\ InBatch => refreshes = 0
    /\ DropOver => refreshes = 1 /\ Len(returns) = Len(calls)

\* C21 (amended): every move batch that is not rejected for its target being
\* the root ends with one refresh of the tree view, whatever the outcomes of
\* its entries: no refresh is fired while the loop runs, the loop comes to
\* its end, and then one refresh has been fired and every remote call has
\* returned; a batch rejected for its target fires no refresh.
C21_AcceptedBatchRefreshes ==
    /\ [](InBatch => refreshes = 0)
    /\ [](BatchOver => refreshes = 1 /\ Len(returns) = Len(calls))
    /\ []((DropOver /\ drop.targetDir = "/") => refreshes = 0)
    /\ InBatch ~> BatchOver

\* a batch all of whose entries failed, the last one after its copy
C21_Witness ==
    /\ BatchOver
    /\ drop.errors = MaxItems
    /\ Cmds = <<"ls", "mv", "cp">>
    /\ refreshes = 1

(***************************************************************************)
(* Properties of the order of the remote calls of a move batch.            *)
(***************************************************************************)
\* the first n of the calls an entry can make, in their order
EntryCalls(n) == SubSeq(<<"ls", "mv", "cp", "rm">>, 1, n)

\* C22: the entries of a move batch are worked on one after another: at any
\* time at most one remote call of the batch has not returned, and it is the
\* last one issued; the calls of an entry are ls of the target directory,
\* then mv, then cp if any, then rm if any, each at most once; and the ls of
\* the next entry is issued only when every call of the entry before it
\* has returned.
C22_OneCallAtATime ==
    /\ [](InBatch =>
            /\ drop.item # NoItem =>
                  /\ Len(calls) \in 1..4
                  /\ Cmds = EntryCalls(Len(calls))
                  /\ calls[1].src = drop.targetDir
                  /\ \A i \in 2..Len(calls) : calls[i].src = drop.item.resourcePath
            /\ AtEntry => Len(returns) = Len(calls) - 1 /\ tpc = calls[Len(calls)].cmd
            /\ tpc = "loop" => Len(returns) = Len(calls))
    /\ [][(InBatch /\ tpc' = "ls") =>
              /\ tpc = "loop"
              /\ Len(returns) = Len(calls)
              /\ calls' = <<Call("ls", drop.targetDir, "", <<>>)>>
              /\ returns' = <<>>]_vars

\* the second entry of a batch is at its rm call, the first entry being over
C22_Witness ==
    /\ tpc = "rm"
    /\ drop.errors = 1
    /\ drop.item = Item("file", "/B/LOADER")
    /\ Cmds = <<"ls", "mv", "cp", "rm">>
    /\ Len(returns) = 3

(***************************************************************************)
(* Properties of openFile on a buffer with unsaved changes.                *)
(***************************************************************************)
\* this step has openFile called on a file whose buffer has unsaved changes
OpenedDirty ==
    \E o \in opens' \ opens :
        /\ \A q \in opens : q.id # o.id
        /\ docs[o.localPath] = "dirty"

\* this step has the overwrite prompt answered without 'Download Anyway'
Declined == "answer:Cancel" \in step' \/ "answer:dismissed" \in step'

\* C23: when openFile finds the buffer of its local path with unsaved
\* changes it issues no download call but asks; when the answer is not
\* 'Download Anyway' it issues no download call either, leaves the cache
\* file, the mapping and the buffer as they are and shows the buffer again;
\* a download call for a file whose buffer openFile found with unsaved
\* changes is issued only in the step that delivers 'Download Anyway'.
C23_DirtyBufferNeedsConfirmation ==
    [][ /\ OpenedDirty =>
              /\ "call:download" \notin step'
              /\ \E o \in opens' \ opens : o.phase = "prompt"
              /\ fileMap' = fileMap /\ localFile' = localFile /\ docs' = docs
        /\ Declined =>
              /\ step' \ {"answer:Cancel", "answer:dismissed"} = {"show"}
              /\ \E q \in opens : q.phase = "prompt" /\ opens' = opens \ {q}
              /\ fileMap' = fileMap /\ localFile' = localFile /\ docs' = docs
        /\ \A o \in opens' :
              (o.phase = "download" /\ \E q \in opens : q.id = o.id /\ q.phase = "prompt")
                  => step' = {"answer:Download Anyway", "call:download"}
        /\ "call:download" \in step' =>
              \/ "answer:Download Anyway" \in step'
              \/ \E o \in opens' \ opens :
                    o.phase = "download" /\ docs[o.localPath] # "dirty"
      ]_vars

\* the prompt for the edited a.asm was cancelled: the registered file, its
\* cache file and its unsaved changes are still there
C23_Witness ==
    /\ step = {"answer:Cancel", "show"}
    /\ docs["/store/c64u-cache/d/a.asm"] = "dirty"
    /\ fileMap["/store/c64u-cache/d/a.asm"] # NoEntry
    /\ localFile["/store/c64u-cache/d/a.asm"] = Original
    /\ opens = {}

(***************************************************************************)
(* Properties of dispose.                                                  *)
(***************************************************************************)
\* no file is registered
MapEmpty == \A p \in LocalPaths : fileMap[p] = NoEntry

\* this step calls 'fs upload'
UploadCalled ==
    \/ "call:upload" \in step'
    \/ "call:upload:throw" \in step'
    \/ Cardinality(uploads') > Cardinality(uploads)

\* this step issues a remote call
CallIssued ==
    \/ UploadCalled
    \/ "call:download" \in step'
    \/ \E o \in opens' \ opens : o.phase = "download"

\* this step deletes a file of the cache directory
FileDeleted == \E p \in LocalPaths : localFile[p] # Absent /\ localFile'[p] = Absent

\* C24 (as stated): once the manager is disposed the mapping is empty.
C24_MapEmptyAfterDispose == disposed => MapEmpty

\* C24 (amended): dispose empties the mapping, issues no remote call and
\* deletes no file of the cache directory; after it the watcher is gone and
\* no save causes an upload call, and no file is deleted; the mapping takes
\* an entry after dispose only from an openFile whose download was in flight
\* when dispose ran and succeeds afterwards.
C24_DisposeClearsAndSilences ==
    /\ [][(~disposed /\ disposed') =>
              /\ \A p \in LocalPaths : fileMap'[p] = NoEntry
              /\ ~CallIssued
              /\ ~FileDeleted
              /\ localFile' = localFile /\ opens' = opens /\ uploads' = uploads]_vars
    /\ [](disposed => ~watching)
    /\ [][disposed =>
              /\ disposed'
              /\ ~UploadCalled
              /\ ~FileDeleted
              /\ "save" \notin step'
              /\ fileMap' # fileMap =>
                    /\ "download:ok" \in step'
                    /\ \E o \in opens \ opens' :
                          /\ fileMap'[o.localPath].remotePath = o.remotePath
                          /\ \A p \in LocalPaths \ {o.localPath} :
                                fileMap'[p] = fileMap[p]]_vars

\* a.asm was registered by a download that returned after dispose, and has
\* been saved since: the save is on disk and no upload was called for it
C24_Witness ==
    /\ disposed
    /\ fileMap["/store/c64u-cache/d/a.asm"] # NoEntry
    /\ localFile["/store/c64u-cache/d/a.asm"] \notin {Absent, Original}
    /\ docs["/store/c64u-cache/d/a.asm"] = "clean"
    /\ lastSave["/store/c64u-cache/d/a.asm"] = Absent
    /\ uploads = {}
    /\ uploading = {}

(***************************************************************************)
(* Properties of getChildren.                                              *)
(***************************************************************************)
\* getChildren has returned the children of a file-system node from a
\* listing that succeeded
Listed == vpc = "idle" /\ view.rawFiles \notin {NotListed, NullFiles}

\* the directory the listed node stands for
ListedPath ==
    IF view.element = NoElement \/ view.element.itemType = "filesystem-root"
    THEN "/" ELSE view.element.resourcePath

\* C25: getChildren of a file-system node whose listing is empty returns one
\* child, the 'Empty directory' placeholder, and getChildren of a file-system
\* node never returns no child at all.
C25_EmptyListingShowsPlaceholder ==
    Listed =>
        /\ Len(children) >= 1
        /\ view.rawFiles = <<>> =>
              children = <<TreeItem("Empty directory", "None", "message", ListedPath)>>

(***************************************************************************)
(* Properties of the destination names of copy and move.                   *)
(***************************************************************************)
\* the calls are those of the copy action
InCopy == calls # <<>> /\ calls[1].cmd = "cp"

\* the last part of a path
NameOf(p) == SubstringFrom(p, LastIndexOf(p, "/") + 1)

\* the directory part of a path
DirOf(p) == Substring(p, 0, LastIndexOf(p, "/"))

\* C26: neither the copy action nor the move of a drop issues its call with
\* a destination name the destination directory holds already: the copy of
\* a file into its own directory is not given the name of the file itself,
\* and the mv of an entry is not given a name the listing of the target
\* directory holds.
C26_CollisionIsRenamed ==
    /\ InCopy =>
          (DirOf(calls[1].dst) = DirOf(calls[1].src)
              => NameOf(calls[1].dst) # NameOf(calls[1].src))
    /\ (InEntry /\ Len(calls) >= 2 /\ locals.targetFiles # NullListing)
          => NameOf(calls[2].dst) \notin locals.targetFiles

(***************************************************************************)
(* Properties of the order of the three patterns.                          *)
(***************************************************************************)
\* a continuation-form line that is of the third form 'file:N: msg' as well
BothForms == "at line 4, column 2 in lib.asm:12: note"

ThirdTexts == {r.text : r \in Third}

\* C27: every line adds one record at most, the records stand in the order
\* of their lines, and the first of the patterns primary, continuation,
\* third that matches the line decides its record: a primary-form line has
\* the primary record, a line of the continuation form that is of the third
\* form too has the continuation's line and column, and a line of the third
\* form only has line N-1, column 0, its message and severity error.
C27_FirstPatternDecides ==
    BuildOver =>
        \A lines \in {OutLines} :
            /\ Len(Held) <= Len(lines)
            /\ Len(Held) = RecordIndex(lines, Len(lines))
            /\ \A i \in 1..Len(lines) :
                  /\ lines[i] \in PrimaryTexts =>
                        Held[RecordIndex(lines, i)] =
                            (CHOOSE r \in Primary : r.text = lines[i]).record
                  /\ lines[i] = BothForms =>
                        Held[RecordIndex(lines, i)] =
                            Diagnostic(3, 1,
                                IF Remembered(lines, i - 1) # ""
                                THEN Remembered(lines, i - 1) ELSE BothForms,
                                "Error")
                  /\ lines[i] \in ThirdTexts =>
                        /\ Held[RecordIndex(lines, i)] =
                              (CHOOSE r \in Third : r.text = lines[i]).record
                        /\ Held[RecordIndex(lines, i)].severity = "Error"

\* a line of the third form, then the line of both forms
C27_Witness ==
    /\ BuildOver
    /\ OutLines = <<"main.asm:10: Unknown mnemonic", BothForms>>
    /\ Held = <<Diagnostic(9, 0, "Unknown mnemonic", "Error"),
                Diagnostic(3, 1, BothForms, "Error")>>

(***************************************************************************)
(* Properties of a drop whose listing call fails.                          *)
(***************************************************************************)
\* the entry's 'fs ls --json' has returned null
ListingFailed ==
    /\ InEntry
    /\ Len(returns) >= 1
    /\ ~returns[1].thrown
    /\ ~returns[1].success

\* C28: when the listing of the target directory returns null during a drop,
\* the entry goes on and nothing is reported for the listing: the mv call is
\* issued at once, its destination is the target directory with the original
\* file name, no other name is chosen, and every message of the entry comes
\* after the mv call has returned.
C28_NullListingMovesUnderOriginalName ==
    ListingFailed =>
        /\ locals.targetFiles = NullListing
        /\ locals.finalFileName = locals.fileName
        /\ Len(calls) >= 2
        /\ calls[2] = Call("mv", drop.item.resourcePath,
                           PathIn(drop.targetDir, locals.fileName), <<>>)
        /\ Len(returns) = 1 => tpc = "mv" /\ reports = <<>>
        /\ reports # <<>> => Len(returns) >= 2
        /\ \A i \in 1..Len(reports) :
              ~Includes(reports[i].text, "renamed to avoid conflict")

\* FOO.PRG dropped on /A, the listing of /A failed, the mv call is out
C28_Witness ==
    /\ ListingFailed
    /\ tpc = "mv"
    /\ locals.fileName = "FOO.PRG"
    /\ calls = <<Call("ls", "/A", "", <<>>),
                 Call("mv", "/B/FOO.PRG", "/A/FOO.PRG", <<>>)>>
    /\ reports = <<>>

(***************************************************************************)
(* Properties of openFile and the upload guard.                            *)
(***************************************************************************)
\* an upload of localPath is in flight and the guard holds the path
UploadInFlight(localPath) ==
    localPath \in uploading /\ InFlight(localPath) # {}

\* C29: openFile does not look at the upload guard: every openFile begun
\* for an openable file while an upload of its local path is in flight and
\* the buffer of the path is not dirty issues the download into that path at
\* once, the guard and the uploads staying as they are.
C29_OpenIgnoresUploadGuard ==
    [][\A o \in opens' \ opens :
          (UploadInFlight(o.localPath) /\ docs[o.localPath] # "dirty")
              => /\ o.phase = "download"
                 /\ "call:download" \in step'
                 /\ uploading' = uploading
                 /\ uploads' = uploads]_vars

\* a tracked text file was saved and opened again from the tree: its upload
\* has not read the cache file yet, the download into the file is in flight
C29_Witness ==
    \E o \in opens, u \in uploads :
        /\ o.phase = "download"
        /\ u.phase = "spawned"
        /\ u.localPath = o.localPath
        /\ o.localPath \in uploading
        /\ docs[o.localPath] = "clean"
        /\ Tracked(o.localPath)

(***************************************************************************)
(* Properties of what a build does to the diagnostics of the other files.  *)
(***************************************************************************)
\* the two messages of a build that the configuration stops
ConfigErrors ==
    {"Kick Assembler JAR path not configured. Please set c64.kickassJarPath in settings."}
    \cup {"Kick Assembler JAR not found at: " \o j : j \in JarPaths}

\* assemble was called in this step
AssembleCalled == kpc = "idle" /\ (kpc' = "exec" \/ notice' \in ConfigErrors)

====
